---- MODULE Spec2Model ----
(***************************************************************************)
(* Verification model of the iSPY shoplifting alert core:                  *)
(*   - lib/grocery-shoplift/gate.ts      (camera + track cooldown gate)    *)
(*   - lib/shoplift-alerts/alert-gate.ts (camera cooldown + persistence)   *)
(*   - lib/shoplift-alerts/pipeline.ts   (gate -> voice -> log -> play)    *)
(*                                                                         *)
(* Units: confidences are hundredths (0.75 is 75), times are milliseconds, *)
(* cooldown knobs are whole seconds as in the environment variables.       *)
(***************************************************************************)
EXTENDS Integers, Sequences, FiniteSets, TLC

\* ------------------------------------------------------------------------
\* Bounds of the model
\* ------------------------------------------------------------------------
TimeStep == 10000

MaxSteps == 2

MaxAdmits == 3

MaxOccurrences == 4

MaxBurst == 13

NumRuns == 2

\* the clock stride and the number of strides under the judge's rate limiter
JudgeStep == 30000

MaxJudgeTicks == 3

\* calls the rate limiter lets through: for cam-1, and for every other camera
MaxJudgeLet == 7

MaxOtherLet == 2

\* judge calls whose input varies in every field
MaxJudgeCalls == 3

\* frames given to the tracker, and detections per frame
MaxFrames == 2

MaxDets == 2

\* audio players asked for, through the queue or directly
MaxPlays == 3

\* POST requests to /api/detected-incidents, the clock stride between their
\* steps and the number of strides
MaxPosts == 2

PostStep == 50000

MaxPostTicks == 2

\* tracks handled by the person-only pipeline
MaxE2ERuns == 2

\* frames of one person followed by the tracker
MaxHistFrames == 11

\* frames in which a person may be absent
MaxAbsentFrames == 3

\* zones of a configuration, and zone visits of a track's history
MaxZones == 2

MaxVisits == 2

Cameras == {"cam-1", "cam-2"}

Tracks == {"t1", "t2"}

\* confidences offered to the gates (hundredths)
GsConfidences == {50, 90}

SaConfidences == {50, 75, 90}

PipeConfidences == {50, 90}

\* the instants offered as input.now_ms: 0 s, +5 s, +20 s, +25 s, +30 s
Times == {0, 5000, 20000, 25000, 30000}

\* an optional now_ms: <<>> when the caller leaves it out, <<t>> otherwise
OptTimes == {<<>>} \cup {<<t>> : t \in Times}

Runs == 1..NumRuns

\* ------------------------------------------------------------------------
\* Environment (process.env): a raw value per variable
\* ------------------------------------------------------------------------
Unset == [kind |-> "unset", num |-> 0]

Empty == [kind |-> "empty", num |-> 0]

NotANumber == [kind |-> "text", num |-> 0]

Num(n) == [kind |-> "num", num |-> n]

\* a string of white space only: Number(v) is 0
Blank == [kind |-> "blank", num |-> 0]

\* Number.isFinite(Number(v)); Number(v) is v.num then
numberIsFinite(v) == v.kind \in {"num", "blank"}

\* the string "true"
TrueText == [kind |-> "true", num |-> 0]

EnvNames == {"SHOPLIFT_CAMERA_COOLDOWN_SECONDS", "SHOPLIFT_TRACK_COOLDOWN_SECONDS",
             "SHOPLIFT_JUDGE_MIN_CONFIDENCE", "SHOPLIFT_MIN_CONFIDENCE",
             "SHOPLIFT_COOLDOWN_SECONDS", "SHOPLIFT_PERSISTENCE_COUNT",
             "SHOPLIFT_PERSISTENCE_WINDOW_MS", "MINIMAX_API_KEY", "ENABLE_MINIMAX_TTS",
             "ENABLE_MINIMAX_VLM", "DRY_RUN", "SHOPLIFT_ESCALATE_SCORE",
             "SHOPLIFT_DWELL_SECONDS", "SHOPLIFT_CHECKOUT_MEMORY_SECONDS"}

EnvWith(over) == [n \in EnvNames |-> IF n \in DOMAIN over THEN over[n] ELSE Unset]

VARIABLES
  env,                    \* process.env, fixed while the process runs
  clock,                  \* Date.now()
  gsLastTriggerByCamera,  \* grocery-shoplift/gate.ts lastTriggerByCamera
  gsLastTriggerByTrack,   \* grocery-shoplift/gate.ts lastTriggerByTrack
  gsLast,                 \* the latest evaluation of the grocery-shoplift gate
  gsAdmitLog,             \* history: events that gate admitted since its reset
  lastTriggerByCamera,    \* shoplift-alerts/alert-gate.ts lastTriggerByCamera
  recentEventsByCamera,   \* shoplift-alerts/alert-gate.ts recentEventsByCamera
  saLast,                 \* the latest evaluation of the shoplift-alerts gate
  saAdmitLog,             \* history: events that gate admitted since its reset
  saOccurrences,          \* history: events that reached the persistence rule
  run,                    \* runShopliftAlertPipeline: one record per call
  incidents,              \* alerts/incidents.jsonl, one record per line
  defaultVoice,           \* voice.ts defaultVoice: "local" or "minimax"
  defaultJudge,           \* judge.ts defaultJudge: "local" or "minimax"
  vo,                     \* one voice request: voice.play or POST /api/theft-voice
  rateCount,              \* judge.ts rateCount of the MiniMax judge
  judgeLog,               \* history: per camera, the times the limiter let a call through
  jLast,                  \* the latest call of judge()
  activeTracks,           \* tracking.ts activeTracks, in insertion order
  nextTrackId,            \* tracking.ts nextTrackId
  trkLast,                \* the latest call of updateTracks
  trkMintedMax,           \* history: the largest track number ever minted
  susLast,                \* the latest call of computeSuspicion
  e2e,                    \* the person-only pipeline: the track being handled
  pb,                     \* playback: isPlaying, playQueue, the player processes
  bd,                     \* the latest value handed to runShopliftAlertPipeline
  cfg,                    \* the latest configuration knob read
  rs,                     \* history: which gates have been reset
  di                      \* detected-incidents.json, the snapshots and the POST requests

vars == <<env, clock, gsLastTriggerByCamera, gsLastTriggerByTrack, gsLast, gsAdmitLog,
          lastTriggerByCamera, recentEventsByCamera, saLast, saAdmitLog, saOccurrences,
          run, incidents, defaultVoice, defaultJudge, vo, rateCount, judgeLog, jLast, activeTracks, nextTrackId,
          trkLast, trkMintedMax, susLast, e2e, pb, bd, cfg, rs, di>>

gsVars == <<gsLastTriggerByCamera, gsLastTriggerByTrack, gsLast, gsAdmitLog>>

saVars == <<lastTriggerByCamera, recentEventsByCamera, saLast, saAdmitLog, saOccurrences>>

pipeVars == <<run, incidents>>

voiceVars == <<vo>>

judgeVars == <<rateCount, judgeLog, jLast>>

trackVars == <<activeTracks, nextTrackId, trkLast, trkMintedMax>>

\* the state of the voice, judge and tracking modules
\* the state of the suspicion stage, of the person-only pipeline and of the
\* audio playback
\* the state added by the event boundary
restVars == <<bd, cfg, rs, di>>

moreVars == <<susLast, e2e, pb, restVars>>

auxVars == <<defaultVoice, defaultJudge, voiceVars, judgeVars, trackVars, moreVars>>

\* ------------------------------------------------------------------------
\* lib/grocery-shoplift/gate.ts
\* ------------------------------------------------------------------------
DEFAULT_CAMERA_COOLDOWN == 20

DEFAULT_TRACK_COOLDOWN == 30

DEFAULT_JUDGE_MIN_CONFIDENCE == 70

getCameraCooldown(e) ==
  LET v == e["SHOPLIFT_CAMERA_COOLDOWN_SECONDS"]
  IN  IF v.kind \in {"unset", "empty"} THEN DEFAULT_CAMERA_COOLDOWN
      ELSE IF numberIsFinite(v) /\ v.num >= 0 THEN v.num ELSE DEFAULT_CAMERA_COOLDOWN

getTrackCooldown(e) ==
  LET v == e["SHOPLIFT_TRACK_COOLDOWN_SECONDS"]
  IN  IF v.kind \in {"unset", "empty"} THEN DEFAULT_TRACK_COOLDOWN
      ELSE IF numberIsFinite(v) /\ v.num >= 0 THEN v.num ELSE DEFAULT_TRACK_COOLDOWN

getJudgeMinConfidence(e) ==
  LET v == e["SHOPLIFT_JUDGE_MIN_CONFIDENCE"]
  IN  IF v.kind \in {"unset", "empty"} THEN DEFAULT_JUDGE_MIN_CONFIDENCE
      ELSE IF numberIsFinite(v) /\ v.num >= 0 /\ v.num <= 100 THEN v.num
      ELSE DEFAULT_JUDGE_MIN_CONFIDENCE

GsNone == [called |-> FALSE, camera_id |-> "cam-1", track_id |-> "t1", conf |-> 0,
           now |-> 0, allow |-> FALSE, reason |-> "none"]

\* input.now_ms ?? Date.now()
gsNow(now_ms) == IF now_ms = <<>> THEN clock ELSE now_ms[1]

\* gsBelowConfidence with <= in place of <
gsBelowConfidence_le(e, conf) == conf <= getJudgeMinConfidence(e)

\* input.judge_confidence_0_1 < minConf (gate.ts line 49)
gsBelowConfidence(e, conf) == conf < getJudgeMinConfidence(e)

\* gsCameraHeld with <= in place of <
gsCameraHeld_le(byCamera, e, camera_id, now) ==
  /\ camera_id \in DOMAIN byCamera
  /\ now - byCamera[camera_id] <= getCameraCooldown(e) * 1000

\* lastCam != null && now - lastCam < camCooldown (gate.ts lines 52-57)
gsCameraHeld(byCamera, e, camera_id, now) ==
  /\ camera_id \in DOMAIN byCamera
  /\ now - byCamera[camera_id] < getCameraCooldown(e) * 1000

\* lastTrack != null && now - lastTrack < trackCooldown (gate.ts lines 53-61)
gsTrackHeld(byTrack, e, track_id, now) ==
  /\ track_id \in DOMAIN byTrack
  /\ now - byTrack[track_id] < getTrackCooldown(e) * 1000

\* gsDecide with the track cooldown checked before the camera cooldown
gsDecide_trackFirst(byCamera, byTrack, e, camera_id, track_id, conf, now) ==
  IF gsBelowConfidence(e, conf)
    THEN [allow |-> FALSE, reason |-> "below_confidence"]
  ELSE IF gsTrackHeld(byTrack, e, track_id, now)
    THEN [allow |-> FALSE, reason |-> "track_cooldown"]
  ELSE IF gsCameraHeld(byCamera, e, camera_id, now)
    THEN [allow |-> FALSE, reason |-> "camera_cooldown"]
  ELSE [allow |-> TRUE, reason |-> "none"]

\* The decision of alertGate (gate.ts lines 48-64) from the two maps, the
\* input and the time.
gsDecide(byCamera, byTrack, e, camera_id, track_id, conf, now) ==
  IF gsBelowConfidence(e, conf)
    THEN [allow |-> FALSE, reason |-> "below_confidence"]
  ELSE IF gsCameraHeld(byCamera, e, camera_id, now)
    THEN [allow |-> FALSE, reason |-> "camera_cooldown"]
  ELSE IF gsTrackHeld(byTrack, e, track_id, now)
    THEN [allow |-> FALSE, reason |-> "track_cooldown"]
  ELSE [allow |-> TRUE, reason |-> "none"]

\* gsSet done on every path
gsSet_always(map, key, now, allow) ==
  [k \in DOMAIN map \cup {key} |-> IF k = key THEN now ELSE map[k]]

\* Map.set(key, now), done only on the admit path (gate.ts lines 62-63)
gsSet(map, key, now, allow) ==
  IF allow THEN [k \in DOMAIN map \cup {key} |-> IF k = key THEN now ELSE map[k]]
  ELSE map

\* alertGate(input) of gate.ts on the gate's maps and history
alertGateGSEffect(camera_id, track_id, conf, now_ms) ==
  LET now == gsNow(now_ms)
      d == gsDecide(gsLastTriggerByCamera, gsLastTriggerByTrack, env,
                    camera_id, track_id, conf, now)
  IN  /\ gsLastTriggerByCamera' = gsSet(gsLastTriggerByCamera, camera_id, now, d.allow)
      /\ gsLastTriggerByTrack' = gsSet(gsLastTriggerByTrack, track_id, now, d.allow)
      /\ gsLast' = [called |-> TRUE, camera_id |-> camera_id, track_id |-> track_id,
                    conf |-> conf, now |-> now, allow |-> d.allow, reason |-> d.reason]
      /\ gsAdmitLog' = IF d.allow
                         THEN Append(gsAdmitLog, [camera_id |-> camera_id,
                                                  track_id |-> track_id, now |-> now])
                         ELSE gsAdmitLog

alertGateGS(camera_id, track_id, conf, now_ms) ==
  /\ alertGateGSEffect(camera_id, track_id, conf, now_ms)
  /\ UNCHANGED <<env, auxVars, clock, saVars, pipeVars>>

\* a reset that clears the camera map only
resetGateEffect_camerasOnly ==
  /\ gsLastTriggerByCamera' = <<>>
  /\ gsLastTriggerByTrack' = gsLastTriggerByTrack
  /\ gsAdmitLog' = <<>>
  /\ gsLast' = GsNone

\* resetGate() (gate.ts lines 67-70); the history starts again with it
resetGateEffect ==
  /\ gsLastTriggerByCamera' = <<>>
  /\ gsLastTriggerByTrack' = <<>>
  /\ gsAdmitLog' = <<>>
  /\ gsLast' = GsNone

resetGate ==
  /\ resetGateEffect
  /\ UNCHANGED <<env, auxVars, clock, saVars, pipeVars>>

\* ------------------------------------------------------------------------
\* lib/shoplift-alerts/alert-gate.ts
\* ------------------------------------------------------------------------
DEFAULT_MIN_CONFIDENCE == 75

DEFAULT_COOLDOWN_SECONDS == 20

DEFAULT_PERSISTENCE_COUNT == 2

DEFAULT_PERSISTENCE_WINDOW_MS == 1000

RECENT_KEEP == 10

getMinConfidence(e) ==
  LET v == e["SHOPLIFT_MIN_CONFIDENCE"]
  IN  IF v.kind \in {"unset", "empty"} THEN DEFAULT_MIN_CONFIDENCE
      ELSE IF numberIsFinite(v) /\ v.num >= 0 /\ v.num <= 100 THEN v.num
      ELSE DEFAULT_MIN_CONFIDENCE

getCooldownSeconds(e) ==
  LET v == e["SHOPLIFT_COOLDOWN_SECONDS"]
  IN  IF v.kind \in {"unset", "empty"} THEN DEFAULT_COOLDOWN_SECONDS
      ELSE IF numberIsFinite(v) /\ v.num >= 0 THEN v.num ELSE DEFAULT_COOLDOWN_SECONDS

getPersistenceCount(e) ==
  LET v == e["SHOPLIFT_PERSISTENCE_COUNT"]
  IN  IF v.kind \in {"unset", "empty"} THEN DEFAULT_PERSISTENCE_COUNT
      ELSE IF numberIsFinite(v) /\ v.num >= 1 THEN v.num ELSE DEFAULT_PERSISTENCE_COUNT

getPersistenceWindowMs(e) ==
  LET v == e["SHOPLIFT_PERSISTENCE_WINDOW_MS"]
  IN  IF v.kind \in {"unset", "empty"} THEN DEFAULT_PERSISTENCE_WINDOW_MS
      ELSE IF numberIsFinite(v) /\ v.num >= 0 THEN v.num ELSE DEFAULT_PERSISTENCE_WINDOW_MS

SaNone == [called |-> FALSE, camera_id |-> "cam-1", conf |-> 0, now |-> 0,
           allowed |-> FALSE, reason |-> "none"]

\* recent.filter((t) => t >= windowStart)
FilterFrom(list, windowStart) == SelectSeq(list, LAMBDA t : t >= windowStart)

\* Array.prototype.slice(-n)
SliceLast(list, n) ==
  IF Len(list) <= n THEN list ELSE SubSeq(list, Len(list) - n + 1, Len(list))

\* recentEventsByCamera.get(camera_id) ?? []
saRecent(recent, camera_id) ==
  IF camera_id \in DOMAIN recent THEN recent[camera_id] ELSE <<>>

\* persistenceCount > 1 && persistenceWindowMs > 0 (alert-gate.ts line 73)
saPersistenceOn(e) == getPersistenceCount(e) > 1 /\ getPersistenceWindowMs(e) > 0

\* inWindow after the push of nowMs (alert-gate.ts lines 74-77)
saInWindow(recent, e, camera_id, nowMs) ==
  Append(FilterFrom(saRecent(recent, camera_id), nowMs - getPersistenceWindowMs(e)), nowMs)

\* event.confidence < minConfidence (alert-gate.ts line 59)
saBelowThreshold(e, conf) == conf < getMinConfidence(e)

\* saInCooldown with <= in place of <
saInCooldown_le(byCamera, e, camera_id, nowMs) ==
  /\ camera_id \in DOMAIN byCamera
  /\ nowMs - byCamera[camera_id] <= getCooldownSeconds(e) * 1000

\* last != null && nowMs - last < cooldownMs (alert-gate.ts lines 63-68)
saInCooldown(byCamera, e, camera_id, nowMs) ==
  /\ camera_id \in DOMAIN byCamera
  /\ nowMs - byCamera[camera_id] < getCooldownSeconds(e) * 1000

\* inWindow.length < persistenceCount under the rule (alert-gate.ts lines 70-83)
saPersistenceShort(recent, e, camera_id, nowMs) ==
  /\ saPersistenceOn(e)
  /\ Len(saInWindow(recent, e, camera_id, nowMs)) < getPersistenceCount(e)

\* saDecide answering with the reason names of the grocery-shoplift gate
saDecide_gsNames(byCamera, recent, e, camera_id, conf, nowMs) ==
  IF saBelowThreshold(e, conf)
    THEN [allowed |-> FALSE, reason |-> "below_confidence"]
  ELSE IF saInCooldown(byCamera, e, camera_id, nowMs)
    THEN [allowed |-> FALSE, reason |-> "camera_cooldown"]
  ELSE IF saPersistenceShort(recent, e, camera_id, nowMs)
    THEN [allowed |-> FALSE, reason |-> "persistence_not_met"]
  ELSE [allowed |-> TRUE, reason |-> "none"]

\* The decision of alertGate (alert-gate.ts lines 58-86)
saDecide(byCamera, recent, e, camera_id, conf, nowMs) ==
  IF saBelowThreshold(e, conf)
    THEN [allowed |-> FALSE, reason |-> "below_threshold"]
  ELSE IF saInCooldown(byCamera, e, camera_id, nowMs)
    THEN [allowed |-> FALSE, reason |-> "cooldown"]
  ELSE IF saPersistenceShort(recent, e, camera_id, nowMs)
    THEN [allowed |-> FALSE, reason |-> "persistence_not_met"]
  ELSE [allowed |-> TRUE, reason |-> "none"]

\* recentEventsByCamera.set(camera_id, inWindow.slice(-10)), reached only past
\* the confidence and cooldown checks and with the persistence rule on
saRecentNext(recent, byCamera, e, camera_id, conf, nowMs) ==
  IF ~saBelowThreshold(e, conf) /\ ~saInCooldown(byCamera, e, camera_id, nowMs)
     /\ saPersistenceOn(e)
    THEN [k \in DOMAIN recent \cup {camera_id} |->
            IF k = camera_id
              THEN SliceLast(saInWindow(recent, e, camera_id, nowMs), RECENT_KEEP)
              ELSE recent[k]]
    ELSE recent

\* saSet that never records the admit
saSet_never(map, key, nowMs, allowed) == map

\* lastTriggerByCamera.set(camera_id, nowMs) (alert-gate.ts line 85)
saSet(map, key, nowMs, allowed) ==
  IF allowed THEN [k \in DOMAIN map \cup {key} |-> IF k = key THEN nowMs ELSE map[k]]
  ELSE map

\* the decision alertGate(event) returns in the current state, at Date.now()
saDecision(camera_id, conf) ==
  saDecide(lastTriggerByCamera, recentEventsByCamera, env, camera_id, conf, clock)

\* The effect of one call of alertGate(event) on the gate's state; d is the
\* decision that call returns.
alertGateEffect(camera_id, conf, d) ==
  /\ lastTriggerByCamera' = saSet(lastTriggerByCamera, camera_id, clock, d.allowed)
  /\ recentEventsByCamera' =
       saRecentNext(recentEventsByCamera, lastTriggerByCamera, env, camera_id, conf, clock)
  /\ saLast' = [called |-> TRUE, camera_id |-> camera_id, conf |-> conf, now |-> clock,
                allowed |-> d.allowed, reason |-> d.reason]
  /\ saAdmitLog' = IF d.allowed
                     THEN Append(saAdmitLog, [camera_id |-> camera_id, now |-> clock])
                     ELSE saAdmitLog
  /\ saOccurrences' = IF d.allowed \/ d.reason = "persistence_not_met"
                        THEN Append(saOccurrences, [camera_id |-> camera_id, now |-> clock])
                        ELSE saOccurrences

\* alertGate(event) called directly, as the unit tests do
alertGate(camera_id, conf) ==
  /\ alertGateEffect(camera_id, conf, saDecision(camera_id, conf))
  /\ UNCHANGED <<env, auxVars, clock, gsVars, pipeVars>>

\* resetAlertGate() (alert-gate.ts lines 92-95); the history starts again
resetAlertGateEffect ==
  /\ lastTriggerByCamera' = <<>>
  /\ recentEventsByCamera' = <<>>
  /\ saLast' = SaNone
  /\ saAdmitLog' = <<>>
  /\ saOccurrences' = <<>>

resetAlertGate ==
  /\ resetAlertGateEffect
  /\ UNCHANGED <<env, auxVars, clock, gsVars, pipeVars>>

\* Date.now() advances
Tick ==
  /\ clock < MaxSteps * TimeStep
  /\ clock' = clock + TimeStep
  /\ UNCHANGED <<env, auxVars, gsVars, saVars, pipeVars>>

\* ------------------------------------------------------------------------
\* lib/shoplift-alerts/pipeline.ts: runShopliftAlertPipeline(event)
\*
\* One record of run per call; pc is the await the call is suspended at.
\* Calls interleave at their awaits only (a single-threaded event loop).
\* ------------------------------------------------------------------------
useMiniMaxTTS(e) ==
  /\ e["MINIMAX_API_KEY"].kind \notin {"unset", "empty"}
  /\ e["ENABLE_MINIMAX_TTS"] \in {Num(1), TrueText}

\* values a failing step throws: the failing steps (import(), voice.play, the
\* fs calls behind them) throw Error objects
Thrown == { [isError |-> TRUE, message |-> "EACCES"] }

NoErr == [isError |-> FALSE, message |-> "unset"]

\* what the awaited generateAlertAudio gives the pipeline: a MiniMax mp3, the
\* fallback beep, a result without audioPath, or an exception
TtsOutcomes == {"mp3", "beep", "nopath", "throw"}

\* incident-log.ts logSuppressed(event, reason): appends one suppressed record,
\* or rejects and appends nothing
logSuppressed(log, p, reason, ok) ==
  IF ok THEN Append(log, [run |-> p, status |-> "suppressed", reason |-> reason])
  ELSE log

\* incident-log.ts logTriggered(event, alertText, audioPath): appends one
\* triggered record, or rejects and appends nothing
logTriggered(log, p, ok) ==
  IF ok THEN Append(log, [run |-> p, status |-> "triggered", reason |-> "none"])
  ELSE log

\* logCaught without the .catch(() => {}) on the handler's own log call
logCaught_handlerBare(stage) == stage # "logError"

\* the .catch(...) chained on each of the four log calls (lines 37, 72, 86, 103)
logCaught(stage) == TRUE

\* the try block spans every stage of the body (lines 33-98)
inTry(stage) == stage \in {"gate", "voice", "logReject", "logTriggered", "importPlayback"}

\* e instanceof Error ? e.message : "pipeline_error" (line 102)
catchReason(err) == IF err.isError THEN err.message ELSE "pipeline_error"

\* the voice an admitted run takes at line 50: MiniMax TTS or the local voice
strategyOf(allowed, e) ==
  IF ~allowed THEN "none" ELSE IF useMiniMaxTTS(e) THEN "minimax" ELSE "local"

\* the stage after the gate (lines 36, 50, 63)
afterGate(allowed, e) ==
  IF ~allowed THEN "logReject" ELSE IF useMiniMaxTTS(e) THEN "tts" ELSE "voice"

\* fallbackUsed of the result: ttsResult.fallbackUsed ?? false for MiniMax
\* audio (line 56), voiceUsed === "local" for the local voice (line 68)
fallbackUsedOf(audioPath) == audioPath \in {"beep", "wav"}

Resolved(triggered, reason, audioPath) ==
  [state |-> "resolved", triggered |-> triggered, reason |-> reason,
   audioPath |-> audioPath, fallbackUsed |-> fallbackUsedOf(audioPath)]

Pending == [state |-> "pending", triggered |-> FALSE, reason |-> "none",
            audioPath |-> "none", fallbackUsed |-> FALSE]

Rejected == [Pending EXCEPT !.state = "rejected"]

\* a throw of err at a stage: into the catch handler, or out of the call
throwAt(r, stage, err) ==
  IF inTry(stage) THEN [r EXCEPT !.pc = "logError", !.err = err]
  ELSE [r EXCEPT !.pc = "done", !.err = NoErr, !.result = Rejected]

\* the outcome of an awaited log call with its .catch: the call goes on, or the
\* rejection is thrown at that stage
afterLog(r, stage, ok, next) ==
  IF ok \/ logCaught(stage) THEN [next EXCEPT !.logFailed = @ \/ ~ok]
  ELSE throwAt([r EXCEPT !.logFailed = TRUE], stage,
               [isError |-> TRUE, message |-> "EACCES"])

\* lines 33-63 up to the first await; a malformed event (null) makes the gate
\* throw before it touches its state
StartRunEffect(p, camera_id, conf, malformed) ==
  /\ run[p].pc = "idle"
  /\ \A q \in Runs : q < p => run[q].pc # "idle"
  /\ IF malformed
       THEN /\ camera_id = "cam-1" /\ conf = 90
            /\ run' = [run EXCEPT ![p] =
                 throwAt(run[p], "gate", [isError |-> TRUE, message |-> "TypeError"])]
            /\ UNCHANGED saVars
       ELSE LET d == saDecision(camera_id, conf)
            IN  /\ alertGateEffect(camera_id, conf, d)
                /\ run' = [run EXCEPT ![p] =
                     [run[p] EXCEPT !.allowed = d.allowed, !.reason = d.reason,
                                    !.strategy = strategyOf(d.allowed, env),
                                    !.pc = afterGate(d.allowed, env)]]

StartRun(p, camera_id, conf, malformed) ==
  /\ StartRunEffect(p, camera_id, conf, malformed)
  /\ UNCHANGED <<env, auxVars, clock, gsVars, incidents>>

\* lines 37-43: await logSuppressed(event, gateResult.reason).catch(...)
LogRejectDone(p, ok) ==
  /\ run[p].pc = "logReject"
  /\ incidents' = logSuppressed(incidents, p, run[p].reason, ok)
  /\ run' = [run EXCEPT ![p] =
       afterLog(run[p], "logReject", ok,
                [run[p] EXCEPT !.pc = "done",
                               !.result = Resolved(FALSE, run[p].reason, "none")])]
  /\ UNCHANGED <<env, auxVars, clock, gsVars, saVars>>

\* lines 50-61: await generateAlertAudio(...) inside its own try/catch
TtsDone(p, outcome) ==
  /\ run[p].pc = "tts"
  /\ run' = [run EXCEPT ![p] =
       IF outcome \in {"mp3", "beep"}
         THEN [run[p] EXCEPT !.audioPath = outcome, !.pc = "logTriggered"]
         ELSE [run[p] EXCEPT !.pc = "voice"]]
  /\ UNCHANGED <<env, auxVars, clock, gsVars, saVars, incidents>>

\* playNonBlocking(path) inside LocalVoiceAlert.play, before it returns
\* (grocery-shoplift/voice.ts lines 95, 107, 114, 118): one more player started
voicePlays(n) == n + 1

\* lines 63-69: await getVoiceAlert().play(...); LocalVoiceAlert.play returns
\* an audioPath or throws, so the voice_failed branch (lines 71-79) is not taken
VoiceDone(p, ok, err) ==
  /\ run[p].pc = "voice"
  /\ run' = [run EXCEPT ![p] =
       IF ok THEN [run[p] EXCEPT !.audioPath = "wav", !.pc = "logTriggered",
                                 !.played = voicePlays(@)]
       ELSE throwAt(run[p], "voice", err)]
  /\ UNCHANGED <<env, auxVars, clock, gsVars, saVars, incidents>>

\* lines 81-86: await logTriggered(...).catch(...)
LogTriggeredDone(p, ok) ==
  /\ run[p].pc = "logTriggered"
  /\ incidents' = logTriggered(incidents, p, ok)
  /\ run' = [run EXCEPT ![p] =
       afterLog(run[p], "logTriggered", ok, [run[p] EXCEPT !.pc = "importPlayback"])]
  /\ UNCHANGED <<env, auxVars, clock, gsVars, saVars>>

\* lines 88-97: await import("./playback"), enqueue the audio, return
ImportPlaybackDone(p, ok, err) ==
  /\ run[p].pc = "importPlayback"
  /\ run' = [run EXCEPT ![p] =
       IF ok THEN [run[p] EXCEPT !.pc = "done", !.played = @ + 1,
                                 !.queued = @ + 1,
                                 !.result = Resolved(TRUE, "none", run[p].audioPath)]
       ELSE throwAt(run[p], "importPlayback", err)]
  /\ UNCHANGED <<env, auxVars, clock, gsVars, saVars, incidents>>

\* lines 98-108: the catch handler
LogErrorDone(p, ok) ==
  /\ run[p].pc = "logError"
  /\ incidents' = logSuppressed(incidents, p, catchReason(run[p].err), ok)
  /\ run' = [run EXCEPT ![p] =
       afterLog(run[p], "logError", ok,
                [run[p] EXCEPT !.pc = "done", !.err = NoErr,
                               !.result = Resolved(FALSE, "pipeline_error", "none")])]
  /\ UNCHANGED <<env, auxVars, clock, gsVars, saVars>>

\* ------------------------------------------------------------------------
\* lib/grocery-shoplift/voice.ts, lib/shoplift-alerts/minimax-tts.ts and
\* app/api/theft-voice/route.ts: one voice request from its call to its result
\* ------------------------------------------------------------------------
MAX_RETRIES == 2

BACKOFF_BASE_MS == 1000

BACKOFF_CAP_MS == 5000

Platforms == {"darwin", "linux", "win32"}

\* who asks for audio: the play() of the strategy initVoiceAlert selected, or
\* POST /api/theft-voice
VoCallers == {"voice", "theftVoice"}

\* what one fetch attempt ends in (minimax-tts.ts lines 264-333): audio
\* written; an HTTP status; a 200 without data.audio; a thrown timeout; a
\* thrown network error whose message has no digit 5 ("fetch failed") or has
\* one ("connect ECONNREFUSED 10.0.0.5:443"); hexToBytes throwing; writeFile
\* throwing with a message without or with a digit 5
FetchOutcomes == {"audio", "http429", "http5xx", "http4xx", "noAudio", "timeout",
                  "netError", "netError5", "badHex", "writeFail", "writeFail5"}

\* outcomes of the local speech tool (say, espeak): done, tool absent (spawn
\* error), non-zero exit, or the mkdir before it failing
SynthOutcomes == {"ok", "absent", "nonzero", "mkdirFail"}

\* !key || !enabled gives null (voice.ts lines 129-131)
createMiniMaxVoiceAlert(e) ==
  /\ e["MINIMAX_API_KEY"].kind \notin {"unset", "empty"}
  /\ e["ENABLE_MINIMAX_TTS"] \in {Num(1), TrueText}

\* !apiKey || isDryRun() (minimax-tts.ts lines 56-58, 105-106, 237-238)
ttsNoKeyOrDryRun(e) ==
  \/ e["MINIMAX_API_KEY"].kind \in {"unset", "empty"}
  \/ e["DRY_RUN"] \in {Num(1), TrueText}

\* the branch an attempt's outcome takes: "return" leaves with the result,
\* "continue" goes to the next loop round, "catch" enters the catch block
\* (minimax-tts.ts lines 295-333)
attemptBranch(outcome) ==
  IF outcome \in {"audio", "http4xx"} THEN "return"
  ELSE IF outcome \in {"http429", "http5xx", "noAudio"} THEN "continue"
  ELSE "catch"

\* isRetryable of the catch block: the message includes "429", "5", "timeout"
\* or "ETIMEDOUT" (minimax-tts.ts lines 325-329)
isRetryable(outcome) == outcome \in {"timeout", "netError5", "writeFail5"}

\* whether another attempt follows this one (the for loop, lines 259-334)
ttsRetries(outcome, attempt) ==
  /\ attempt < MAX_RETRIES
  /\ \/ attemptBranch(outcome) = "continue"
     \/ attemptBranch(outcome) = "catch" /\ isRetryable(outcome)

\* the wait that starts from the base and doubles after it: 1 s, 2 s, 4 s
backoffMs_fromBase(attempt) ==
  IF BACKOFF_BASE_MS * 2 ^ (attempt - 1) < BACKOFF_CAP_MS
    THEN BACKOFF_BASE_MS * 2 ^ (attempt - 1) ELSE BACKOFF_CAP_MS

\* Math.min(1000 * Math.pow(2, attempt), 5000), waited at the top of round
\* attempt > 0 (minimax-tts.ts lines 260-263)
backoffMs(attempt) ==
  IF BACKOFF_BASE_MS * 2 ^ attempt < BACKOFF_CAP_MS
    THEN BACKOFF_BASE_MS * 2 ^ attempt ELSE BACKOFF_CAP_MS

NoTts == [success |-> FALSE, audioPath |-> "none", fallbackUsed |-> FALSE]

VoPending == [state |-> "pending", success |-> FALSE, audioPath |-> "none",
              voiceUsed |-> "none"]

VoResult(success, audioPath, voiceUsed) ==
  [state |-> "resolved", success |-> success, audioPath |-> audioPath,
   voiceUsed |-> voiceUsed]

NoVo == [caller |-> "none", platform |-> "none", pc |-> "idle", attempt |-> 0,
         attempts |-> <<>>, waits |-> <<>>, tts |-> NoTts, synth |-> "none", played |-> 0,
         ioFault |-> FALSE, result |-> VoPending]

\* where LocalVoiceAlert.play starts (voice.ts lines 86-113)
localEntry(platform) ==
  IF platform = "darwin" THEN "say" ELSE IF platform = "linux" THEN "espeak" ELSE "beep"

\* LocalVoiceAlert.play(location, cameraId) is entered
startLocal(v) == [v EXCEPT !.pc = localEntry(v.platform)]

\* generateAlertAudio / generateCustomAlertAudio return t to the caller:
\* voice.ts lines 138-151, theft-voice route lines 20-31
ttsReturn(v, t) ==
  IF v.caller = "voice"
    THEN IF t.audioPath # "none"
           THEN [v EXCEPT !.tts = t, !.pc = "done", !.played = @ + 1,
                          !.result = VoResult(TRUE, t.audioPath,
                                       IF t.fallbackUsed THEN "local" ELSE "minimax")]
           ELSE startLocal([v EXCEPT !.tts = t])
    ELSE IF t.audioPath # "none"
           THEN [v EXCEPT !.tts = t, !.pc = "done", !.played = @ + 1,
                          !.result = VoResult(TRUE, t.audioPath,
                                       IF t.fallbackUsed THEN "local" ELSE "minimax")]
           ELSE [v EXCEPT !.tts = t, !.pc = "done",
                          !.result = VoResult(FALSE, "none", "none")]

\* generateAlertAudio throws to the caller: caught by voice.ts line 148 (then
\* local), or by the route's catch (status 500)
ttsThrow(v) ==
  IF v.caller = "voice" THEN startLocal(v)
  ELSE [v EXCEPT !.pc = "done", !.result = VoResult(FALSE, "none", "none")]

\* a request starts: the selected strategy's play(), or the route's POST
VoStartEffect(caller, platform) ==
  /\ vo.pc = "idle"
  /\ LET v == [vo EXCEPT !.caller = caller, !.platform = platform]
     IN  vo' = IF caller = "voice" /\ defaultVoice = "local"
                 THEN startLocal(v)
               ELSE IF ttsNoKeyOrDryRun(env) THEN [v EXCEPT !.pc = "noKeyBeep"]
               ELSE [v EXCEPT !.pc = "ttsMkdir"]

VoStart(caller, platform) ==
  /\ VoStartEffect(caller, platform)
  /\ UNCHANGED <<env, clock, defaultVoice, defaultJudge, gsVars, saVars, pipeVars,
                 judgeVars, trackVars, moreVars>>

\* minimax-tts.ts lines 238-246: await writeFallbackBeep(...) outside any try
VoNoKeyBeep(ok) ==
  /\ vo.pc = "noKeyBeep"
  /\ vo' = IF ok THEN ttsReturn(vo, [success |-> TRUE, audioPath |-> "beep",
                                     fallbackUsed |-> TRUE])
           ELSE ttsThrow([vo EXCEPT !.ioFault = TRUE])
  /\ UNCHANGED <<env, clock, defaultVoice, defaultJudge, gsVars, saVars, pipeVars,
                 judgeVars, trackVars, moreVars>>

\* minimax-tts.ts lines 248-256: await mkdir(alertsDir)
VoTtsMkdir(ok) ==
  /\ vo.pc = "ttsMkdir"
  /\ vo' = IF ok THEN [vo EXCEPT !.pc = "fetch"]
           ELSE ttsReturn([vo EXCEPT !.ioFault = TRUE], NoTts)
  /\ UNCHANGED <<env, clock, defaultVoice, defaultJudge, gsVars, saVars, pipeVars,
                 judgeVars, trackVars, moreVars>>

\* minimax-tts.ts lines 259-334: one round of the attempt loop
VoAttempt(outcome) ==
  /\ vo.pc = "fetch"
  /\ LET v == [vo EXCEPT !.attempts = Append(@, outcome),
                         !.ioFault = @ \/ outcome \in {"writeFail", "writeFail5"}]
     IN  vo' = IF outcome = "audio"
                 THEN ttsReturn(v, [success |-> TRUE, audioPath |-> "mp3",
                                    fallbackUsed |-> FALSE])
               ELSE IF attemptBranch(outcome) = "return" THEN ttsReturn(v, NoTts)
               ELSE IF ttsRetries(outcome, vo.attempt)
                 THEN [v EXCEPT !.attempt = @ + 1,
                                !.waits = Append(@, backoffMs(vo.attempt + 1))]
               ELSE [v EXCEPT !.pc = "fallbackBeep"]
  /\ UNCHANGED <<env, clock, defaultVoice, defaultJudge, gsVars, saVars, pipeVars,
                 judgeVars, trackVars, moreVars>>

\* minimax-tts.ts lines 336-350: writeFallbackBeep inside try/catch
VoFallbackBeep(ok) ==
  /\ vo.pc = "fallbackBeep"
  /\ vo' = IF ok THEN ttsReturn(vo, [success |-> TRUE, audioPath |-> "beep",
                                     fallbackUsed |-> TRUE])
           ELSE ttsReturn([vo EXCEPT !.ioFault = TRUE], NoTts)
  /\ UNCHANGED <<env, clock, defaultVoice, defaultJudge, gsVars, saVars, pipeVars,
                 judgeVars, trackVars, moreVars>>

\* afterSynthFail that lets the failure out of play()
afterSynthFail_throw(platform) == "throw"

\* where a failed say / espeak goes: espeak's own catch falls through to the
\* beep of line 113, say's failure lands in the outer catch (voice.ts lines 109-117)
afterSynthFail(platform) == IF platform = "linux" THEN "beep" ELSE "catchBeep"

\* voice.ts lines 87-108: mkdir, the speech tool, playNonBlocking, return
VoSynth(outcome) ==
  /\ vo.pc \in {"say", "espeak"}
  /\ LET v == [vo EXCEPT !.synth = outcome, !.ioFault = @ \/ outcome = "mkdirFail"]
         next == afterSynthFail(vo.platform)
     IN  vo' = IF outcome = "ok"
                 THEN [v EXCEPT !.pc = "done", !.played = voicePlays(@),
                                !.result = VoResult(TRUE, "wav", "local")]
               ELSE IF next = "throw"
                 THEN [v EXCEPT !.pc = "done", !.result.state = "rejected"]
               ELSE [v EXCEPT !.pc = next]
  /\ UNCHANGED <<env, clock, defaultVoice, defaultJudge, gsVars, saVars, pipeVars,
                 judgeVars, trackVars, moreVars>>

\* voice.ts lines 113-115: writeBeepWav inside the outer try
VoBeep(ok) ==
  /\ vo.pc = "beep"
  /\ vo' = IF ok THEN [vo EXCEPT !.pc = "done", !.played = voicePlays(@),
                                 !.result = VoResult(TRUE, "beep", "local")]
           ELSE [vo EXCEPT !.pc = "catchBeep", !.ioFault = TRUE]
  /\ UNCHANGED <<env, clock, defaultVoice, defaultJudge, gsVars, saVars, pipeVars,
                 judgeVars, trackVars, moreVars>>

\* voice.ts lines 116-120: writeBeepWav inside the catch block
VoCatchBeep(ok) ==
  /\ vo.pc = "catchBeep"
  /\ vo' = IF ok THEN [vo EXCEPT !.pc = "done", !.played = voicePlays(@),
                                 !.result = VoResult(TRUE, "beep", "local")]
           ELSE [vo EXCEPT !.pc = "done", !.ioFault = TRUE,
                           !.result.state = "rejected"]
  /\ UNCHANGED <<env, clock, defaultVoice, defaultJudge, gsVars, saVars, pipeVars,
                 judgeVars, trackVars, moreVars>>

\* ------------------------------------------------------------------------
\* lib/grocery-shoplift/judge.ts
\* ------------------------------------------------------------------------
RATE_LIMIT_PER_CAMERA == 6

RATE_WINDOW_MS == 60000

\* confidence_0_1 of the local judge, in hundredths: 0.7 and 0.2
LIKELY_CONFIDENCE == 70

UNLIKELY_CONFIDENCE == 20

\* ConcealmentJudgeInput: the camera, the two flags the rule reads, and
\* whether dwell time is among suspicionReasons
JudgeInputs ==
  [cameraId : Cameras, exitWithoutCheckout : BOOLEAN, torsoRatioSpike : BOOLEAN,
   dwell : BOOLEAN]

\* concealment_likely of a judge that also counts dwell time
concealmentLikely_dwell(input) ==
  input.exitWithoutCheckout \/ input.torsoRatioSpike \/ input.dwell

\* input.exitWithoutCheckout || input.torsoRatioSpike (judge.ts lines 28-29)
concealmentLikely(input) == input.exitWithoutCheckout \/ input.torsoRatioSpike

\* LocalFallbackJudge.judge (judge.ts lines 27-41)
LocalFallbackJudge(input) ==
  LET concealment_likely == concealmentLikely(input)
      confidence_0_1 == IF concealment_likely THEN LIKELY_CONFIDENCE
                        ELSE UNLIKELY_CONFIDENCE
  IN  [concealment_likely |-> concealment_likely,
       confidence_0_1 |-> confidence_0_1,
       evidence |-> (IF input.exitWithoutCheckout THEN <<"exit_without_checkout">>
                     ELSE <<>>)
                    \o (IF input.torsoRatioSpike THEN <<"torso_ratio_spike">> ELSE <<>>),
       recommended_action |->
         IF concealment_likely /\ confidence_0_1 >= LIKELY_CONFIDENCE
           THEN "alert" ELSE "log_only"]

\* !key || !enabled gives null (judge.ts lines 49-51)
createMiniMaxVLMJudge(e) ==
  /\ e["MINIMAX_API_KEY"].kind \notin {"unset", "empty"}
  /\ e["ENABLE_MINIMAX_VLM"] \in {Num(1), TrueText}

\* list.filter(t => t >= now - RATE_WINDOW_MS) (judge.ts lines 61-62)
rateInWindow(rc, cameraId, now) ==
  FilterFrom(IF cameraId \in DOMAIN rc THEN rc[cameraId] ELSE <<>>, now - RATE_WINDOW_MS)

\* checkRateLimit letting a call through while the window holds the limit
checkRateLimit_gt(rc, cameraId, now) ==
  ~(Len(rateInWindow(rc, cameraId, now)) > RATE_LIMIT_PER_CAMERA)

\* what checkRateLimit returns (judge.ts line 63)
checkRateLimit(rc, cameraId, now) ==
  ~(Len(rateInWindow(rc, cameraId, now)) >= RATE_LIMIT_PER_CAMERA)

\* rateCount after checkRateLimit (judge.ts lines 63-65)
rateCountNext(rc, cameraId, now, through) ==
  IF through
    THEN [k \in DOMAIN rc \cup {cameraId} |->
            IF k = cameraId
              THEN SliceLast(Append(rateInWindow(rc, cameraId, now), now),
                             RATE_LIMIT_PER_CAMERA)
              ELSE rc[k]]
    ELSE rc

\* the MiniMax judge answering with a verdict of its own when let through
vlmJudge_own(through, input) ==
  IF through
    THEN [concealment_likely |-> TRUE, confidence_0_1 |-> 90,
          evidence |-> <<"vlm">>, recommended_action |-> "alert"]
    ELSE LocalFallbackJudge(input)

\* judge() of the MiniMax judge (judge.ts lines 70-78): the local judge's
\* result on both branches
vlmJudge(through, input) == LocalFallbackJudge(input)

JNone == [called |-> FALSE, now |-> 0, strategy |-> "local", first |-> "none",
          through |-> FALSE,
          input |-> [cameraId |-> "cam-1", exitWithoutCheckout |-> FALSE,
                     torsoRatioSpike |-> FALSE, dwell |-> FALSE],
          result |-> LocalFallbackJudge([cameraId |-> "cam-1",
                                         exitWithoutCheckout |-> FALSE,
                                         torsoRatioSpike |-> FALSE, dwell |-> FALSE])]

\* getConcealmentJudge().judge(input)
JudgeCallEffect(input) ==
  LET external == defaultJudge = "minimax"
      through == external /\ checkRateLimit(rateCount, input.cameraId, clock)
  IN  /\ rateCount' = IF external
                        THEN rateCountNext(rateCount, input.cameraId, clock, through)
                        ELSE rateCount
      /\ judgeLog' = IF through
                       THEN [judgeLog EXCEPT ![input.cameraId] = Append(@, clock)]
                       ELSE judgeLog
      /\ jLast' = [called |-> TRUE, now |-> clock, strategy |-> defaultJudge,
                   first |-> IF jLast.called THEN jLast.first ELSE defaultJudge,
                   through |-> through, input |-> input,
                   result |-> IF external THEN vlmJudge(through, input)
                              ELSE LocalFallbackJudge(input)]

JudgeCall(input) ==
  /\ JudgeCallEffect(input)
  /\ UNCHANGED <<env, clock, defaultJudge, defaultVoice, gsVars, saVars, pipeVars,
                 voiceVars, trackVars, moreVars>>

\* initConcealmentJudge() (judge.ts lines 88-92): a new judge, and with it a
\* new rateCount
initConcealmentJudge ==
  /\ defaultJudge' = IF createMiniMaxVLMJudge(env) THEN "minimax" ELSE "local"
  /\ rateCount' = <<>>
  /\ UNCHANGED <<env, clock, defaultVoice, judgeLog, jLast, gsVars, saVars, pipeVars,
                 voiceVars, trackVars, moreVars>>

\* initVoiceAlert() (voice.ts lines 162-166)
initVoiceAlert ==
  /\ defaultVoice' = IF createMiniMaxVoiceAlert(env) THEN "minimax" ELSE "local"
  /\ UNCHANGED <<env, clock, defaultJudge, judgeVars, gsVars, saVars, pipeVars,
                 voiceVars, trackVars, moreVars>>

\* ------------------------------------------------------------------------
\* lib/grocery-shoplift/tracking.ts
\* ------------------------------------------------------------------------
\* IOU_THRESHOLD = 0.3 as the fraction IOU_NUM / IOU_DEN
IOU_NUM == 3

IOU_DEN == 10

MAX_BBOX_HISTORY == 10

\* seq.slice(-n)
sliceLast(seq, n) ==
  IF Len(seq) <= n THEN seq ELSE SubSeq(seq, Len(seq) - n + 1, Len(seq))

\* bbox_history that drops the newest box beyond the bound
historyNext_dropNewest(history, box) ==
  IF Len(history) < MAX_BBOX_HISTORY THEN Append(history, box) ELSE history

\* [...bestTrack.bbox_history, det.bbox].slice(-MAX_BBOX_HISTORY)
\* (tracking.ts line 53)
historyNext(history, box) == sliceLast(Append(history, box), MAX_BBOX_HISTORY)

Box(x1, x2) == [x1 |-> x1, y1 |-> 0, x2 |-> x2, y2 |-> 1]

\* bounding boxes offered as detections: IOU((0,3),(1,4)) = 1/2,
\* IOU((0,6),(3,10)) = 3/10, IOU((0,3),(1,6)) = 1/3, IOU((3,6),(1,6)) = 3/5,
\* IOU((0,3),(3,6)) = 0
Boxes == {Box(0, 3), Box(1, 4), Box(3, 6), Box(1, 6), Box(0, 6), Box(3, 10)}

Max2(a, b) == IF a >= b THEN a ELSE b

Min2(a, b) == IF a <= b THEN a ELSE b

\* inter and union of iou(a, b) (tracking.ts lines 12-21)
iouInter(a, b) ==
  Max2(0, Min2(a.x2, b.x2) - Max2(a.x1, b.x1)) * Max2(0, Min2(a.y2, b.y2) - Max2(a.y1, b.y1))

iouUnion(a, b) ==
  (a.x2 - a.x1) * (a.y2 - a.y1) + (b.x2 - b.x1) * (b.y2 - b.y1) - iouInter(a, b)

\* iou(a, b) > iou(c, d), with union <= 0 giving 0 (tracking.ts line 22)
iouGreater(a, b, c, d) ==
  LET n1 == IF iouUnion(a, b) <= 0 THEN 0 ELSE iouInter(a, b)
      d1 == IF iouUnion(a, b) <= 0 THEN 1 ELSE iouUnion(a, b)
      n2 == IF iouUnion(c, d) <= 0 THEN 0 ELSE iouInter(c, d)
      d2 == IF iouUnion(c, d) <= 0 THEN 1 ELSE iouUnion(c, d)
  IN  n1 * d2 > n2 * d1

\* iou(a, b) > IOU_THRESHOLD
iouAboveThreshold(a, b) ==
  iouUnion(a, b) > 0 /\ iouInter(a, b) * IOU_DEN > IOU_NUM * iouUnion(a, b)

\* bestTrack taking the first unmatched track above the threshold
bestTrack_firstAbove(tracks, matched, box) ==
  LET S == {i \in 1..Len(tracks) :
              tracks[i].track_id \notin matched /\ iouAboveThreshold(tracks[i].bbox, box)}
  IN  IF S = {} THEN 0 ELSE CHOOSE i \in S : \A j \in S : i <= j

\* the inner loop (tracking.ts lines 39-49): the index of bestTrack in
\* insertion order, 0 for null: above the threshold, unmatched, and strictly
\* better than every earlier candidate, not worse than any later one
bestTrack(tracks, matched, box) ==
  LET S == {i \in 1..Len(tracks) :
              tracks[i].track_id \notin matched /\ iouAboveThreshold(tracks[i].bbox, box)}
      B == {i \in S : \A j \in S :
              /\ ~iouGreater(tracks[j].bbox, box, tracks[i].bbox, box)
              /\ (j < i => iouGreater(tracks[i].bbox, box, tracks[j].bbox, box))}
  IN  IF S = {} THEN 0 ELSE CHOOSE i \in B : TRUE

\* the loop over the detections (tracking.ts lines 38-77) from detection k on;
\* st holds activeTracks, nextTrackId, matched and result
RECURSIVE trackLoop(_, _, _, _)
trackLoop(st, dets, k, nowMs) ==
  IF k > Len(dets) THEN st
  ELSE
    LET b == bestTrack(st.tracks, st.matched, dets[k])
    IN  IF b > 0
          THEN LET updated == [track_id |-> st.tracks[b].track_id, bbox |-> dets[k],
                               bbox_history |->
                                 historyNext(st.tracks[b].bbox_history, dets[k]),
                               last_seen |-> nowMs,
                               first_seen |-> st.tracks[b].first_seen]
               IN  trackLoop([st EXCEPT !.tracks[b] = updated,
                                        !.matched = @ \cup {updated.track_id},
                                        !.result = Append(@, updated)],
                             dets, k + 1, nowMs)
          ELSE LET newTrack == [track_id |-> st.nextTrackId, bbox |-> dets[k],
                                bbox_history |-> <<dets[k]>>,
                                last_seen |-> nowMs, first_seen |-> nowMs]
               IN  trackLoop([st EXCEPT !.tracks = Append(@, newTrack),
                                        !.nextTrackId = @ + 1,
                                        !.result = Append(@, newTrack)],
                             dets, k + 1, nowMs)

\* a store that drops the tracks not seen in the frame
storeAfterFrame_dropUnseen(tracks, result) ==
  SelectSeq(tracks, LAMBDA t : \E k \in 1..Len(result) : result[k].track_id = t.track_id)

\* activeTracks when updateTracks returns (tracking.ts lines 79-80): the loop
\* has set the matched and the new tracks, nothing is dropped
storeAfterFrame(tracks, result) == tracks

TrkNone == [called |-> FALSE, nowMs |-> 0, dets |-> <<>>, pre |-> <<>>, result |-> <<>>,
            mintedBefore |-> 0]

\* updateTracks(detections, nowMs); track ids are the n of "t<n>"
updateTracks(dets, nowMs) ==
  LET st == trackLoop([tracks |-> activeTracks, nextTrackId |-> nextTrackId,
                       matched |-> {}, result |-> <<>>], dets, 1, nowMs)
  IN  /\ activeTracks' = storeAfterFrame(st.tracks, st.result)
      /\ nextTrackId' = st.nextTrackId
      /\ trkLast' = [called |-> TRUE, nowMs |-> nowMs, dets |-> dets,
                     pre |-> activeTracks, result |-> st.result,
                     mintedBefore |-> trkMintedMax]
      /\ trkMintedMax' = Max2(trkMintedMax, st.nextTrackId - 1)
      /\ UNCHANGED <<env, clock, defaultVoice, defaultJudge, gsVars, saVars, pipeVars,
                     voiceVars, judgeVars, moreVars>>

\* resetTracks() (tracking.ts lines 108-111)
resetTracks ==
  /\ activeTracks' = <<>>
  /\ nextTrackId' = 1
  /\ trkLast' = TrkNone
  /\ UNCHANGED trkMintedMax
  /\ UNCHANGED <<env, clock, defaultVoice, defaultJudge, gsVars, saVars, pipeVars,
                 voiceVars, judgeVars, moreVars>>

\* ------------------------------------------------------------------------
\* lib/grocery-shoplift/suspicion.ts
\* ------------------------------------------------------------------------
DEFAULT_ESCALATE_SCORE == 70

DEFAULT_DWELL_SECONDS == 12

DEFAULT_CHECKOUT_MEMORY_SECONDS == 60

EXIT_WITHOUT_CHECKOUT_BONUS == 40

DWELL_HIGH_THEFT_BONUS == 25

TORSO_RATIO_SPIKE_BONUS == 20

TORSO_RATIO_WINDOW == 5

\* TORSO_SPIKE_RATIO = 0.25 as the fraction TORSO_SPIKE_NUM / TORSO_SPIKE_DEN
TORSO_SPIKE_NUM == 1

TORSO_SPIKE_DEN == 4

\* getEscalateScore falling back to 60
getEscalateScore_sixty(e) ==
  LET v == e["SHOPLIFT_ESCALATE_SCORE"]
  IN  IF v.kind \in {"unset", "empty"} THEN 60
      ELSE IF numberIsFinite(v) /\ v.num >= 0 /\ v.num <= 100 THEN v.num
      ELSE 60

getEscalateScore(e) ==
  LET v == e["SHOPLIFT_ESCALATE_SCORE"]
  IN  IF v.kind \in {"unset", "empty"} THEN DEFAULT_ESCALATE_SCORE
      ELSE IF numberIsFinite(v) /\ v.num >= 0 /\ v.num <= 100 THEN v.num
      ELSE DEFAULT_ESCALATE_SCORE

getDwellSeconds(e) ==
  LET v == e["SHOPLIFT_DWELL_SECONDS"]
  IN  IF v.kind \in {"unset", "empty"} THEN DEFAULT_DWELL_SECONDS
      ELSE IF numberIsFinite(v) /\ v.num >= 0 THEN v.num ELSE DEFAULT_DWELL_SECONDS

getCheckoutMemorySeconds(e) ==
  LET v == e["SHOPLIFT_CHECKOUT_MEMORY_SECONDS"]
  IN  IF v.kind \in {"unset", "empty"} THEN DEFAULT_CHECKOUT_MEMORY_SECONDS
      ELSE IF numberIsFinite(v) /\ v.num >= 0 THEN v.num
      ELSE DEFAULT_CHECKOUT_MEMORY_SECONDS

\* A zone of the configuration: id, type, enabled, and inside, the value of
\* isPointInPolygon(center, z.polygon) for the centre of the track's bbox
Zone(id, type, enabled, inside) ==
  [id |-> id, type |-> type, enabled |-> enabled, inside |-> inside]

ZoneTypes == {"exit", "checkout", "high_theft"}

\* whichZone (suspicion.ts lines 52-58): the index of the first enabled zone
\* that holds the point, 0 for null
whichZone(zones) ==
  LET S == {i \in 1..Len(zones) : zones[i].enabled /\ zones[i].inside}
  IN  IF S = {} THEN 0 ELSE CHOOSE i \in S : \A j \in S : i <= j

\* zones.find(z => z.type === "exit" && z.enabled !== false) (line 72)
exitZone(zones) ==
  LET S == {i \in 1..Len(zones) : zones[i].type = "exit" /\ zones[i].enabled}
  IN  IF S = {} THEN 0 ELSE CHOOSE i \in S : \A j \in S : i <= j

\* zone_history.some(h => h.zone_type === "checkout" && h.entered_ms >= cutoff)
\* (lines 78-81)
enteredCheckout(history, now, e) ==
  \E i \in 1..Len(history) :
    /\ history[i].zone_type = "checkout"
    /\ history[i].entered_ms >= now - getCheckoutMemorySeconds(e) * 1000

\* exit_without_checkout (lines 76-87)
exitWithoutCheckout(input, e) ==
  LET x == exitZone(input.zones)
      c == whichZone(input.zones)
  IN  /\ x > 0 /\ c > 0
      /\ input.zones[c].id = input.zones[x].id
      /\ ~enteredCheckout(input.zone_history, input.now_ms, e)

\* a visit that counts whatever zone it names
dwellCounts_anyZone(h, zones) == h.zone_type = "high_theft"

\* the visits the loop of lines 90-95 adds up: type high_theft, and zone_id
\* the id of an enabled high_theft zone of the configuration
dwellCounts(h, zones) ==
  /\ h.zone_type = "high_theft"
  /\ \E i \in 1..Len(zones) :
       zones[i].type = "high_theft" /\ zones[i].enabled /\ zones[i].id = h.zone_id

\* dwell_high_theft_sec before rounding, in milliseconds (lines 89-95)
RECURSIVE dwellMs(_, _, _, _)
dwellMs(history, zones, now, k) ==
  IF k > Len(history) THEN 0
  ELSE (IF dwellCounts(history[k], zones) THEN now - history[k].entered_ms ELSE 0)
         + dwellMs(history, zones, now, k + 1)

\* dwell_high_theft_sec >= dwellSec (line 96)
dwellTriggered(ms, e) == ms >= getDwellSeconds(e) * 1000

\* Math.round(x) for x = n / d with d > 0
roundDiv(n, d) == (2 * n + d) \div (2 * d)

\* bboxTorsoRatio (tracking.ts lines 98-103) as the fraction num / den
torsoRatioNum(box) == IF box.y2 - box.y1 <= 0 THEN 0 ELSE box.x2 - box.x1

torsoRatioDen(box) == IF box.y2 - box.y1 <= 0 THEN 1 ELSE box.y2 - box.y1

RECURSIVE torsoDenProduct(_, _)
torsoDenProduct(boxes, k) ==
  IF k > Len(boxes) THEN 1 ELSE torsoRatioDen(boxes[k]) * torsoDenProduct(boxes, k + 1)

\* the sum of the ratios of boxes, over the common denominator den
RECURSIVE torsoSum(_, _, _)
torsoSum(boxes, den, k) ==
  IF k > Len(boxes) THEN 0
  ELSE torsoRatioNum(boxes[k]) * (den \div torsoRatioDen(boxes[k]))
         + torsoSum(boxes, den, k + 1)

Abs(n) == IF n < 0 THEN 0 - n ELSE n

\* torso_ratio_spike (lines 101-113): |last - mean| >= TORSO_SPIKE_RATIO over
\* the last TORSO_RATIO_WINDOW boxes, in exact fractions
torsoRatioSpike(history) ==
  /\ Len(history) >= TORSO_RATIO_WINDOW
  /\ LET recent == sliceLast(history, TORSO_RATIO_WINDOW)
         n      == Len(recent)
         den    == torsoDenProduct(recent, 1)
         sum    == torsoSum(recent, den, 1)
         last   == torsoRatioNum(recent[n]) * (den \div torsoRatioDen(recent[n]))
     IN  TORSO_SPIKE_DEN * Abs(n * last - sum) >= TORSO_SPIKE_NUM * n * den

\* a score without the dwell bonus
scoreOf_noDwell(exit, dwell, spike) ==
  Min2(100, (IF exit THEN EXIT_WITHOUT_CHECKOUT_BONUS ELSE 0)
              + (IF spike THEN TORSO_RATIO_SPIKE_BONUS ELSE 0))

\* suspicion_score: the bonuses added at lines 83, 97 and 109, then
\* Math.min(100, score) (line 115)
scoreOf(exit, dwell, spike) ==
  Min2(100, (IF exit THEN EXIT_WITHOUT_CHECKOUT_BONUS ELSE 0)
              + (IF dwell THEN DWELL_HIGH_THEFT_BONUS ELSE 0)
              + (IF spike THEN TORSO_RATIO_SPIKE_BONUS ELSE 0))

\* reasons (lines 84, 98, 110); the dwell tag carries
\* dwell_high_theft_sec.toFixed(0)
reasonsOf(exit, dwell, spike, ms) ==
  (IF exit THEN <<[tag |-> "exit_without_checkout", sec |-> 0]>> ELSE <<>>)
  \o (IF dwell THEN <<[tag |-> "dwell_high_theft", sec |-> roundDiv(ms, 1000)]>> ELSE <<>>)
  \o (IF spike THEN <<[tag |-> "torso_ratio_spike", sec |-> 0]>> ELSE <<>>)

\* computeSuspicion (lines 63-124); dwell_high_theft_sec in tenths of a second
computeSuspicion(input, e) ==
  LET exit  == exitWithoutCheckout(input, e)
      ms    == dwellMs(input.zone_history, input.zones, input.now_ms, 1)
      dwell == dwellTriggered(ms, e)
      spike == torsoRatioSpike(input.track.bbox_history)
  IN  [suspicion_score |-> scoreOf(exit, dwell, spike),
       reasons |-> reasonsOf(exit, dwell, spike, ms),
       exit_without_checkout |-> exit,
       dwell_high_theft_sec |-> roundDiv(ms, 100),
       torso_ratio_spike |-> spike]

\* shouldEscalate with the comparison turned round
shouldEscalate_lt(result, e) == result.suspicion_score < getEscalateScore(e)

\* shouldEscalate (lines 129-131)
shouldEscalate(result, e) == result.suspicion_score >= getEscalateScore(e)

SusNone == [called |-> FALSE, input |-> <<>>, result |-> <<>>]

\* a call computeSuspicion(input)
SuspicionCall(input) ==
  /\ susLast' = [called |-> TRUE, input |-> input, result |-> computeSuspicion(input, env)]
  /\ UNCHANGED <<e2e, pb, restVars>>
  /\ UNCHANGED <<env, clock, defaultVoice, defaultJudge, gsVars, saVars, pipeVars,
                 voiceVars, judgeVars, trackVars>>

\* ------------------------------------------------------------------------
\* The person-only pipeline (QUICKSTART_GROCERY_SHOPLIFT.md lines 36-43):
\* suspicion, judge, gate, voice, log, one track after another
\* ------------------------------------------------------------------------
E2ENone == [pc |-> "idle", camera_id |-> "none", track_id |-> "none", fresh |-> FALSE,
            escalated |-> FALSE, status |-> "none", reason |-> "none"]

\* what the judge is given of the suspicion result
judgeInputOf(camera_id, r) ==
  [cameraId |-> camera_id, exitWithoutCheckout |-> r.exit_without_checkout,
   torsoRatioSpike |-> r.torso_ratio_spike,
   dwell |-> \E i \in 1..Len(r.reasons) : r.reasons[i].tag = "dwell_high_theft"]

\* a track arrives: computeSuspicion, shouldEscalate, and the judge's call
E2EReceive(input, camera_id, track_id) ==
  /\ e2e.pc \in {"idle", "done"}
  /\ LET r == computeSuspicion(input, env)
     IN  /\ susLast' = [called |-> TRUE, input |-> input, result |-> r]
         /\ e2e' = [E2ENone EXCEPT
                      !.camera_id = camera_id, !.track_id = track_id,
                      !.fresh = /\ camera_id \notin DOMAIN gsLastTriggerByCamera
                                /\ track_id \notin DOMAIN gsLastTriggerByTrack,
                      !.escalated = shouldEscalate(r, env),
                      !.pc = IF shouldEscalate(r, env) THEN "judged" ELSE "done"]
         /\ IF shouldEscalate(r, env)
              THEN JudgeCallEffect(judgeInputOf(camera_id, r))
              ELSE UNCHANGED judgeVars
  /\ vo' = NoVo
  /\ UNCHANGED <<env, clock, defaultVoice, defaultJudge, gsVars, saVars, pipeVars,
                 trackVars, pb, restVars>>

\* the judge's result goes to alertGate; a rejected event is logged as
\* suppressed with the gate's reason, an admitted one is handed to
\* getVoiceAlert().play
E2EGate(platform) ==
  /\ e2e.pc = "judged"
  /\ alertGateGSEffect(e2e.camera_id, e2e.track_id, jLast.result.confidence_0_1, <<>>)
  /\ LET d == gsDecide(gsLastTriggerByCamera, gsLastTriggerByTrack, env,
                       e2e.camera_id, e2e.track_id, jLast.result.confidence_0_1, clock)
     IN  IF d.allow
           THEN /\ VoStartEffect("voice", platform)
                /\ e2e' = [e2e EXCEPT !.pc = "voicing"]
           ELSE /\ UNCHANGED vo
                /\ e2e' = [e2e EXCEPT !.pc = "done", !.status = "suppressed",
                                      !.reason = d.reason]
  /\ UNCHANGED <<env, clock, defaultVoice, defaultJudge, saVars, pipeVars,
                 judgeVars, trackVars, susLast, pb, restVars>>

\* play() has settled: a triggered record, or, when play() rejected, the
\* suppressed record of the error path
E2ELog ==
  /\ e2e.pc = "voicing" /\ vo.pc = "done"
  /\ e2e' = IF vo.result.state = "resolved"
              THEN [e2e EXCEPT !.pc = "done", !.status = "triggered"]
              ELSE [e2e EXCEPT !.pc = "done", !.status = "suppressed",
                               !.reason = "pipeline_error"]
  /\ UNCHANGED <<env, clock, defaultVoice, defaultJudge, gsVars, saVars, pipeVars,
                 voiceVars, judgeVars, trackVars, susLast, pb, restVars>>

\* ------------------------------------------------------------------------
\* Audio playback: playAudioNonBlocking and drainPlayQueue
\* (minimax-tts.ts lines 422-494), playNonBlocking (voice.ts lines 68-73)
\*
\* A player process is [id, audio, via, state]: via "queue" when spawned by
\* drainPlayQueue, "direct" when spawned by playNonBlocking; state "running",
\* "failed" (the spawn failed, its error event is pending) or "errored" (the
\* error event is delivered, the close event that follows it is pending).
\* asked counts the calls of both functions.
\* ------------------------------------------------------------------------
\* audio paths; spawn throws on the path "bad"
Audios == {"a1", "a2", "bad"}

PbNone == [installed |-> TRUE, isPlaying |-> FALSE, playQueue |-> <<>>, procs |-> {},
           starts |-> <<>>, enqueued |-> <<>>, spawned |-> 0, asked |-> 0, threw |-> FALSE,
           crashed |-> FALSE]

\* spawn(cmd, args, ...): throws on an invalid argument; with the player
\* missing it returns a child that emits error, then close
spawnOutcome(installed, audio) ==
  IF audio = "bad" THEN "throws" ELSE IF installed THEN "running" ELSE "failed"

\* drainPlayQueue() (lines 458-494)
RECURSIVE drainPlayQueue(_)
drainPlayQueue(b) ==
  IF b.isPlaying \/ b.playQueue = <<>> THEN b
  ELSE LET next == Head(b.playQueue)
           b1 == [b EXCEPT !.playQueue = Tail(@), !.starts = Append(@, next)]
           outcome == spawnOutcome(b.installed, next)
       IN  IF outcome = "throws"
             THEN drainPlayQueue([b1 EXCEPT !.isPlaying = FALSE])
             ELSE [b1 EXCEPT !.isPlaying = TRUE, !.spawned = @ + 1,
                             !.procs = @ \cup {[id |-> b.spawned + 1, audio |-> next,
                                                via |-> "queue", state |-> outcome]}]

\* playAudioNonBlocking(audioPath) (lines 447-456)
playAudioNonBlocking(audio) ==
  /\ ~pb.crashed
  /\ pb' = drainPlayQueue([pb EXCEPT !.playQueue = Append(@, audio),
                                     !.enqueued = Append(@, audio),
                                     !.asked = @ + 1])
  /\ UNCHANGED <<env, clock, defaultVoice, defaultJudge, gsVars, saVars, pipeVars,
                 voiceVars, judgeVars, trackVars, susLast, e2e, restVars>>

\* playNonBlocking(audioPath) of LocalVoiceAlert (voice.ts lines 68-73): a
\* spawn of its own, no queue, no listener on the child
playNonBlocking(audio) ==
  /\ ~pb.crashed
  /\ LET outcome == spawnOutcome(pb.installed, audio)
     IN  pb' = IF outcome = "throws" THEN [pb EXCEPT !.threw = TRUE, !.asked = @ + 1]
               ELSE [pb EXCEPT !.spawned = @ + 1, !.asked = @ + 1,
                               !.procs = @ \cup {[id |-> pb.spawned + 1, audio |-> audio,
                                                  via |-> "direct", state |-> outcome]}]
  /\ UNCHANGED <<env, clock, defaultVoice, defaultJudge, gsVars, saVars, pipeVars,
                 voiceVars, judgeVars, trackVars, susLast, e2e, restVars>>

\* the child's error event: drainPlayQueue's listener (lines 476-480); a
\* child of playNonBlocking has no listener, the event is thrown as an
\* uncaught exception
PbError(proc) ==
  /\ ~pb.crashed
  /\ proc \in pb.procs /\ proc.state = "failed"
  /\ LET rest == (pb.procs \ {proc}) \cup {[proc EXCEPT !.state = "errored"]}
     IN  pb' = IF proc.via = "queue"
                 THEN drainPlayQueue([pb EXCEPT !.procs = rest, !.isPlaying = FALSE])
                 ELSE [pb EXCEPT !.procs = rest, !.crashed = TRUE]
  /\ UNCHANGED <<env, clock, defaultVoice, defaultJudge, gsVars, saVars, pipeVars,
                 voiceVars, judgeVars, trackVars, susLast, e2e, restVars>>

\* a close listener that clears the flag and does not drain
PbClose_noDrain(proc) ==
  /\ ~pb.crashed
  /\ proc \in pb.procs /\ proc.state \in {"running", "errored"}
  /\ pb' = [pb EXCEPT !.procs = @ \ {proc}, !.isPlaying = FALSE]
  /\ UNCHANGED <<env, clock, defaultVoice, defaultJudge, gsVars, saVars, pipeVars,
                 voiceVars, judgeVars, trackVars, susLast, e2e, restVars>>

\* the child's close event, when the player has ended or after the error
\* event of a failed spawn: drainPlayQueue's listener (lines 482-486)
PbClose(proc) ==
  /\ ~pb.crashed
  /\ proc \in pb.procs /\ proc.state \in {"running", "errored"}
  /\ pb' = IF proc.via = "queue"
             THEN drainPlayQueue([pb EXCEPT !.procs = @ \ {proc}, !.isPlaying = FALSE])
             ELSE [pb EXCEPT !.procs = @ \ {proc}]
  /\ UNCHANGED <<env, clock, defaultVoice, defaultJudge, gsVars, saVars, pipeVars,
                 voiceVars, judgeVars, trackVars, susLast, e2e, restVars>>

\* the player is installed or removed on the host
PbInstall(installed) ==
  /\ ~pb.crashed
  /\ installed # pb.installed
  /\ pb' = [pb EXCEPT !.installed = installed]
  /\ UNCHANGED <<env, clock, defaultVoice, defaultJudge, gsVars, saVars, pipeVars,
                 voiceVars, judgeVars, trackVars, susLast, e2e, restVars>>

\* ------------------------------------------------------------------------
\* app/api/detected-incidents/route.ts: POST
\*
\* A string is the sequence of its characters. di.file is the array stored in
\* detected-incidents.json, newest first; di.stored is the history of the ids
\* ever written to it. A request keeps the array it read in incidents, as the
\* handler does between its awaits.
\* ------------------------------------------------------------------------
DEDUPE_WINDOW_MS == 90000

DESCRIPTION_NORMALIZE_LEN == 60

Posts == 1..MaxPosts

\* String.prototype.trim
RECURSIVE trim(_)
trim(d) ==
  IF d = <<>> THEN d
  ELSE IF Head(d) = " " THEN trim(Tail(d))
  ELSE IF d[Len(d)] = " " THEN trim(SubSeq(d, 1, Len(d) - 1))
  ELSE d

\* String.prototype.toLowerCase
toLowerCase(d) ==
  [i \in 1..Len(d) |-> CASE d[i] = "T" -> "t" [] d[i] = "C" -> "c" [] OTHER -> d[i]]

\* normalizeDescription (lines 55-57)
normalizeDescription(d) ==
  LET l == toLowerCase(trim(d))
  IN  SubSeq(l, 1, Min2(Len(l), DESCRIPTION_NORMALIZE_LEN))

\* cameraId of the body: absent, or a string
NoCamera == [t |-> "undefined", s |-> <<>>]

CamStr(s) == [t |-> "string", s |-> s]

\* (cameraId ?? "live").trim() (line 75)
camOf(cameraId) ==
  trim(IF cameraId.t = "undefined" THEN <<"l", "i", "v", "e">> ELSE cameraId.s)

NoPost == [pc |-> "idle", cam |-> <<>>, description |-> <<>>, now |-> 0,
           incidents |-> <<>>, status |-> "none", duplicateOf |-> 0]

DiNone == [file |-> <<>>, stored |-> {}, snapshots |-> {},
           posts |-> [r \in Posts |-> NoPost]]

\* the filter of lines 80-83
recentOf(stored, cam, normDesc, now) ==
  SelectSeq(stored, LAMBDA inc :
    /\ now - inc.createdAt <= DEDUPE_WINDOW_MS
    /\ inc.cameraId = cam
    /\ normalizeDescription(inc.description) = normDesc)

\* lines 60-79: the body is parsed and checked, cam, normDesc and now are
\* taken, and the read of the file is started
PostBegin(r, hasSnapshot, description, cameraId) ==
  /\ di.posts[r].pc = "idle"
  /\ \A q \in Posts : q < r => di.posts[q].pc # "idle"
  /\ di' = [di EXCEPT !.posts[r] =
       IF ~hasSnapshot \/ description = <<>>
         THEN [@ EXCEPT !.pc = "done", !.status = "400"]
         ELSE [@ EXCEPT !.pc = "read", !.cam = camOf(cameraId),
                        !.description = description, !.now = clock]]
  /\ UNCHANGED <<env, clock, defaultVoice, defaultJudge, gsVars, saVars, pipeVars,
                 voiceVars, judgeVars, trackVars, susLast, e2e, pb, bd, cfg, rs>>

\* readIncidents (lines 23-31) resolves, with the array of the file or with
\* [] when the read or the parse failed; lines 80-90
PostRead(r, ok) ==
  /\ di.posts[r].pc = "read"
  /\ LET q == di.posts[r]
         stored == IF ok THEN di.file ELSE <<>>
         recent == recentOf(stored, q.cam, normalizeDescription(q.description), q.now)
     IN  di' = [di EXCEPT !.posts[r] =
           IF recent # <<>>
             THEN [q EXCEPT !.pc = "done", !.status = "duplicate",
                            !.duplicateOf = recent[1].id]
             ELSE [q EXCEPT !.pc = "snapshot", !.incidents = stored]]
  /\ UNCHANGED <<env, clock, defaultVoice, defaultJudge, gsVars, saVars, pipeVars,
                 voiceVars, judgeVars, trackVars, susLast, e2e, pb, bd, cfg, rs>>

\* lines 92-110: ensureDirs and the write of the snapshot resolve, the
\* incident is built and put in front of the array read; a rejection goes to
\* the catch handler (lines 114-117)
PostSnapshot(r, ok) ==
  /\ di.posts[r].pc = "snapshot"
  /\ LET q == di.posts[r]
         incident == [id |-> r, description |-> q.description, cameraId |-> q.cam,
                      createdAt |-> clock]
     IN  di' = IF ok
                 THEN [di EXCEPT !.snapshots = @ \cup {r},
                                 !.posts[r] = [q EXCEPT !.pc = "write",
                                                        !.incidents = <<incident>> \o @]]
                 ELSE [di EXCEPT !.posts[r] = [q EXCEPT !.pc = "done", !.status = "500"]]
  /\ UNCHANGED <<env, clock, defaultVoice, defaultJudge, gsVars, saVars, pipeVars,
                 voiceVars, judgeVars, trackVars, susLast, e2e, pb, bd, cfg, rs>>

\* lines 111-113: writeIncidents (lines 33-35) replaces the file by the
\* request's array
PostWrite(r, ok) ==
  /\ di.posts[r].pc = "write"
  /\ LET q == di.posts[r]
     IN  di' = IF ok
                 THEN [di EXCEPT !.file = q.incidents,
                                 !.stored = @ \cup {q.incidents[i].id : i \in 1..Len(q.incidents)},
                                 !.posts[r] = [q EXCEPT !.pc = "done", !.status = "200"]]
                 ELSE [di EXCEPT !.posts[r] = [q EXCEPT !.pc = "done", !.status = "500"]]
  /\ UNCHANGED <<env, clock, defaultVoice, defaultJudge, gsVars, saVars, pipeVars,
                 voiceVars, judgeVars, trackVars, susLast, e2e, pb, bd, cfg, rs>>

\* time passes between the steps of the requests
PostTick ==
  /\ clock < MaxPostTicks * PostStep
  /\ clock' = clock + PostStep
  /\ UNCHANGED <<env, auxVars, gsVars, saVars, pipeVars>>

\* ------------------------------------------------------------------------
\* Event validation: isShopliftingEvent and fromTheftEvent (types.ts), and the
\* callers of runShopliftAlertPipeline
\*
\* The value of a field is [t, n, s]: t is its typeof, with NaN ("nan", typeof
\* number) kept apart from the other numbers; n is the number, confidences in
\* hundredths; s is the string.
\* ------------------------------------------------------------------------
SHOPLIFTING_EVENT_TYPE == "shoplifting_detected"

\* DEFAULT_THRESHOLDS.alertSecurity
ALERT_SECURITY == 75

Str(s) == [t |-> "string", n |-> 0, s |-> s]

NumV(n) == [t |-> "number", n |-> n, s |-> ""]

NaNV == [t |-> "nan", n |-> 0, s |-> ""]

Undef == [t |-> "undefined", n |-> 0, s |-> ""]

typeOf(v) == IF v.t = "nan" THEN "number" ELSE v.t

\* an object with the five fields of an event; kind is "object", or "null" or
\* "string" for a value that is no object
EvObject(event_type, camera_id, location, confidence, timestamp) ==
  [kind |-> "object", event_type |-> event_type, camera_id |-> camera_id,
   location |-> location, confidence |-> confidence, timestamp |-> timestamp]

EvNonObject(kind) ==
  [kind |-> kind, event_type |-> Undef, camera_id |-> Undef, location |-> Undef,
   confidence |-> Undef, timestamp |-> Undef]

\* isShopliftingEvent(ev) (types.ts lines 32-46); a comparison with NaN is false
isShopliftingEvent(ev) ==
  /\ ev.kind = "object"
  /\ ev.event_type = Str(SHOPLIFTING_EVENT_TYPE)
  /\ typeOf(ev.camera_id) = "string"
  /\ typeOf(ev.location) = "string"
  /\ typeOf(ev.confidence) = "number"
  /\ ev.confidence.t = "number" /\ ev.confidence.n >= 0
  /\ ev.confidence.t = "number" /\ ev.confidence.n <= 100
  /\ typeOf(ev.timestamp) = "string"

\* a || 'unknown' (route.ts line 409)
orUnknown(v) ==
  IF v.t \in {"undefined", "nan"} \/ v = Str("") \/ v = NumV(0) THEN Str("unknown") ELSE v

\* fromTheftEvent(theft, locationLabel) (types.ts lines 51-78)
fromTheftEvent(theft, locationLabel) ==
  EvObject(Str(SHOPLIFTING_EVENT_TYPE), theft.cameraId,
           IF locationLabel.t # "undefined" THEN locationLabel
           ELSE IF theft.zoneId.t # "undefined" THEN theft.zoneId
           ELSE Str("Unknown area"),
           NumV(Min2(100, Max2(0, theft.suspicionScore))),
           Str("iso"))

\* the key event.camera_id is in the gate's maps; a number is a key of its own
keyOf(v) == IF v.t = "string" THEN v.s ELSE "(number)"

BdNone == [called |-> FALSE, run |-> 0, event |-> EvNonObject("null"), valid |-> FALSE]

\* runShopliftAlertPipeline(event) up to its first await (pipeline.ts lines
\* 30-34): the gate is called on the value as it is; null makes it throw
pipelineEnter(p, ev) ==
  /\ ev.kind = "null" \/ (ev.kind = "object" /\ ev.confidence.t = "number")
  /\ bd' = [called |-> TRUE, run |-> p, event |-> ev, valid |-> isShopliftingEvent(ev)]
  /\ IF ev.kind = "null"
       THEN StartRunEffect(p, "cam-1", 90, TRUE)
       ELSE StartRunEffect(p, keyOf(ev.camera_id), ev.confidence.n, FALSE)
  /\ UNCHANGED <<env, clock, gsVars, incidents, defaultVoice, defaultJudge, voiceVars,
                 judgeVars, trackVars, susLast, e2e, pb, cfg, rs, di>>

\* a call isShopliftingEvent(ev) on any value
Validate(ev) ==
  /\ bd' = [called |-> TRUE, run |-> 0, event |-> ev, valid |-> isShopliftingEvent(ev)]
  /\ UNCHANGED <<env, clock, gsVars, saVars, pipeVars, defaultVoice, defaultJudge,
                 voiceVars, judgeVars, trackVars, susLast, e2e, pb, cfg, rs, di>>

\* a call of the exported runShopliftAlertPipeline on any value
PipelineOn(p, ev) == pipelineEnter(p, ev)

\* POST of the grocery detect route for one event of the frame (route.ts lines
\* 405-443): cameraId is the body's field, score the event's suspicionScore
DetectPost(p, cameraId, zoneName, score) ==
  /\ score >= ALERT_SECURITY
  /\ pipelineEnter(p, fromTheftEvent([cameraId |-> orUnknown(cameraId), zoneId |-> Undef,
                                      suspicionScore |-> score], zoneName))

\* ------------------------------------------------------------------------
\* The configuration knobs: getAlertGateConfig (alert-gate.ts lines 100-112),
\* getGateConfig (gate.ts lines 72-82) and the getters of suspicion.ts
\* ------------------------------------------------------------------------
Knobs == {"SHOPLIFT_MIN_CONFIDENCE", "SHOPLIFT_COOLDOWN_SECONDS", "SHOPLIFT_PERSISTENCE_COUNT",
          "SHOPLIFT_PERSISTENCE_WINDOW_MS", "SHOPLIFT_CAMERA_COOLDOWN_SECONDS",
          "SHOPLIFT_TRACK_COOLDOWN_SECONDS", "SHOPLIFT_JUDGE_MIN_CONFIDENCE",
          "SHOPLIFT_ESCALATE_SCORE", "SHOPLIFT_DWELL_SECONDS",
          "SHOPLIFT_CHECKOUT_MEMORY_SECONDS"}

\* the getter of each knob
knobValue(knob, e) ==
  CASE knob = "SHOPLIFT_MIN_CONFIDENCE" -> getMinConfidence(e)
    [] knob = "SHOPLIFT_COOLDOWN_SECONDS" -> getCooldownSeconds(e)
    [] knob = "SHOPLIFT_PERSISTENCE_COUNT" -> getPersistenceCount(e)
    [] knob = "SHOPLIFT_PERSISTENCE_WINDOW_MS" -> getPersistenceWindowMs(e)
    [] knob = "SHOPLIFT_CAMERA_COOLDOWN_SECONDS" -> getCameraCooldown(e)
    [] knob = "SHOPLIFT_TRACK_COOLDOWN_SECONDS" -> getTrackCooldown(e)
    [] knob = "SHOPLIFT_JUDGE_MIN_CONFIDENCE" -> getJudgeMinConfidence(e)
    [] knob = "SHOPLIFT_ESCALATE_SCORE" -> getEscalateScore(e)
    [] knob = "SHOPLIFT_DWELL_SECONDS" -> getDwellSeconds(e)
    [] OTHER -> getCheckoutMemorySeconds(e)

CfgNone == [called |-> FALSE, knob |-> "SHOPLIFT_MIN_CONFIDENCE", resolved |-> 0]

\* one knob read from process.env
ConfigRead(knob) ==
  /\ cfg' = [called |-> TRUE, knob |-> knob, resolved |-> knobValue(knob, env)]
  /\ UNCHANGED <<env, clock, gsVars, saVars, pipeVars, defaultVoice, defaultJudge,
                 voiceVars, judgeVars, trackVars, susLast, e2e, pb, bd, rs, di>>

\* resetGate() and resetAlertGate() with the fact of the reset recorded
resetGateSeen ==
  /\ resetGateEffect
  /\ rs' = [rs EXCEPT !.gs = TRUE]
  /\ UNCHANGED <<env, clock, saVars, pipeVars, defaultVoice, defaultJudge, voiceVars,
                 judgeVars, trackVars, susLast, e2e, pb, bd, cfg, di>>

resetAlertGateSeen ==
  /\ resetAlertGateEffect
  /\ rs' = [rs EXCEPT !.sa = TRUE]
  /\ UNCHANGED <<env, clock, gsVars, pipeVars, defaultVoice, defaultJudge, voiceVars,
                 judgeVars, trackVars, susLast, e2e, pb, bd, cfg, di>>

\* ------------------------------------------------------------------------
\* Initial states
\* ------------------------------------------------------------------------
NoRun == [pc |-> "idle", allowed |-> FALSE, reason |-> "none", audioPath |-> "none",
          played |-> 0, queued |-> 0, strategy |-> "none", err |-> NoErr, logFailed |-> FALSE, result |-> Pending]

InitWith(e) ==
  /\ env = e
  /\ clock = 0
  /\ gsLastTriggerByCamera = <<>>
  /\ gsLastTriggerByTrack = <<>>
  /\ gsLast = GsNone
  /\ gsAdmitLog = <<>>
  /\ lastTriggerByCamera = <<>>
  /\ recentEventsByCamera = <<>>
  /\ saLast = SaNone
  /\ saAdmitLog = <<>>
  /\ saOccurrences = <<>>
  /\ run = [p \in Runs |-> NoRun]
  /\ incidents = <<>>
  /\ defaultVoice = "local"
  /\ defaultJudge = "local"
  /\ vo = NoVo
  /\ rateCount = <<>>
  /\ judgeLog = [c \in Cameras |-> <<>>]
  /\ jLast = JNone
  /\ activeTracks = <<>>
  /\ nextTrackId = 1
  /\ trkLast = TrkNone
  /\ trkMintedMax = 0
  /\ susLast = SusNone
  /\ e2e = E2ENone
  /\ pb = PbNone
  /\ bd = BdNone
  /\ cfg = CfgNone
  /\ rs = [gs |-> FALSE, sa |-> FALSE]
  /\ di = DiNone

\* configurations of the grocery-shoplift gate: the defaults (20 s, 30 s, 0.7),
\* track cooldown 0, camera cooldown 0, and 10 s / 5 s / 0.9
GsEnvs ==
  { EnvWith(<<>>),
    EnvWith([SHOPLIFT_TRACK_COOLDOWN_SECONDS |-> Num(0)]),
    EnvWith([SHOPLIFT_CAMERA_COOLDOWN_SECONDS |-> Num(0)]),
    EnvWith([SHOPLIFT_CAMERA_COOLDOWN_SECONDS |-> Num(10),
             SHOPLIFT_TRACK_COOLDOWN_SECONDS |-> Num(5),
             SHOPLIFT_JUDGE_MIN_CONFIDENCE |-> Num(90)]) }

\* configurations of the shoplift-alerts gate: the defaults (0.75, 20 s, 2 in
\* 1000 ms), the unit tests' (persistence off), 3 in 10 s with cooldown 10 s,
\* and 2 in 10 s with cooldown 0
SaEnvs ==
  { EnvWith(<<>>),
    EnvWith([SHOPLIFT_PERSISTENCE_COUNT |-> Num(1),
             SHOPLIFT_PERSISTENCE_WINDOW_MS |-> Num(0),
             SHOPLIFT_COOLDOWN_SECONDS |-> Num(20)]),
    EnvWith([SHOPLIFT_PERSISTENCE_COUNT |-> Num(3),
             SHOPLIFT_PERSISTENCE_WINDOW_MS |-> Num(10000),
             SHOPLIFT_COOLDOWN_SECONDS |-> Num(10)]),
    EnvWith([SHOPLIFT_PERSISTENCE_COUNT |-> Num(2),
             SHOPLIFT_PERSISTENCE_WINDOW_MS |-> Num(10000),
             SHOPLIFT_COOLDOWN_SECONDS |-> Num(0)]) }

\* ------------------------------------------------------------------------
\* Specifications
\* ------------------------------------------------------------------------
Init == \E e \in GsEnvs : InitWith(e)

Next ==
  \/ \E c \in Cameras, t \in Tracks, conf \in GsConfidences, now_ms \in OptTimes :
       /\ Len(gsAdmitLog) < MaxAdmits
       /\ alertGateGS(c, t, conf, now_ms)
  \/ resetGate

\* The grocery-shoplift gate.  Its time is the caller's input.now_ms, any
\* instant of Times in any order, which covers every sequence of Date.now()
\* readings over those instants; an omitted now_ms reads the clock.
Spec == Init /\ [][Next]_vars

InitSA == \E e \in SaEnvs : InitWith(e)

NextSA ==
  \/ \E c \in Cameras, conf \in SaConfidences :
       /\ Len(saOccurrences) < MaxOccurrences
       /\ alertGate(c, conf)
  \/ resetAlertGate
  \/ Tick

SpecSA == InitSA /\ [][NextSA]_vars

\* configurations of the pipeline: the unit tests' gate (persistence off) with
\* MiniMax TTS enabled, and the defaults (persistence 2 in 1000 ms, local voice)
PipeEnvs ==
  { EnvWith([SHOPLIFT_PERSISTENCE_COUNT |-> Num(1),
             SHOPLIFT_PERSISTENCE_WINDOW_MS |-> Num(0),
             MINIMAX_API_KEY |-> NotANumber, ENABLE_MINIMAX_TTS |-> Num(1)]),
    EnvWith(<<>>) }

InitPipe == \E e \in PipeEnvs : InitWith(e)

\* the steps of a call after its gate evaluation
PipeRest(p) ==
  \/ \E ok \in BOOLEAN : LogRejectDone(p, ok)
  \/ \E outcome \in TtsOutcomes : TtsDone(p, outcome)
  \/ \E ok \in BOOLEAN, err \in Thrown : VoiceDone(p, ok, err)
  \/ \E ok \in BOOLEAN : LogTriggeredDone(p, ok)
  \/ \E ok \in BOOLEAN, err \in Thrown : ImportPlaybackDone(p, ok, err)
  \/ \E ok \in BOOLEAN : LogErrorDone(p, ok)

PipeStep(p) ==
  \/ \E c \in Cameras, conf \in PipeConfidences, malformed \in BOOLEAN :
       StartRun(p, c, conf, malformed)
  \/ PipeRest(p)

\* The clock is read by the gate only, at the start of a call: it advances
\* while a call is still to be made.
NextPipe ==
  \/ \E p \in Runs : PipeStep(p)
  \/ (\E p \in Runs : run[p].pc = "idle") /\ Tick

\* Concurrent calls of runShopliftAlertPipeline over the shoplift-alerts gate
SpecPipe == InitPipe /\ [][NextPipe]_vars

\* A burst of events on one camera under a persistence count above the size of
\* the gate's buffer: 12 occurrences required inside a 60 s window
PersistEnvs ==
  { EnvWith([SHOPLIFT_PERSISTENCE_COUNT |-> Num(12),
             SHOPLIFT_PERSISTENCE_WINDOW_MS |-> Num(60000)]) }

InitPersist == \E e \in PersistEnvs : InitWith(e)

NextPersist ==
  \/ \E conf \in PipeConfidences :
       /\ Len(saOccurrences) < MaxBurst
       /\ alertGate("cam-1", conf)
  \/ Tick

SpecPersist == InitPersist /\ [][NextPersist]_vars

\* Both gates and the pipeline in one specification.  The grocery-shoplift
\* gate shares no state with the shoplift-alerts gate and the pipeline, so a
\* behaviour exercises one of them at a time: a gate that was used is reset
\* before the other one is.
GsQuiet ==
  /\ gsLast = GsNone /\ gsAdmitLog = <<>>
  /\ gsLastTriggerByCamera = <<>> /\ gsLastTriggerByTrack = <<>>

SaQuiet ==
  /\ saLast = SaNone /\ saAdmitLog = <<>> /\ saOccurrences = <<>>
  /\ lastTriggerByCamera = <<>> /\ recentEventsByCamera = <<>>

PipeQuiet == \A p \in Runs : run[p].pc = "idle"

InitGates == \E e \in GsEnvs \cup SaEnvs \cup PipeEnvs : InitWith(e)

NextGates ==
  \/ env \in GsEnvs /\ SaQuiet /\ PipeQuiet /\ clock = 0 /\ Next
  \/ env \in SaEnvs /\ GsQuiet /\ PipeQuiet /\ NextSA
  \/ env \in PipeEnvs /\ GsQuiet /\ (~PipeQuiet \/ (SaQuiet /\ clock = 0)) /\ NextPipe

SpecGates == InitGates /\ [][NextGates]_vars

\* Voice requests: the credentials and the flag missing, both set, the key
\* without the flag, and both set under DRY_RUN
VoiceEnvs ==
  { EnvWith(<<>>),
    EnvWith([MINIMAX_API_KEY |-> NotANumber, ENABLE_MINIMAX_TTS |-> Num(1)]),
    EnvWith([MINIMAX_API_KEY |-> NotANumber]),
    EnvWith([MINIMAX_API_KEY |-> NotANumber, ENABLE_MINIMAX_TTS |-> TrueText,
             DRY_RUN |-> Num(1)]) }

InitVoice == \E e \in VoiceEnvs : InitWith(e)

NextVoice ==
  \/ vo.pc = "idle" /\ initVoiceAlert
  \/ \E caller \in VoCallers, platform \in Platforms : VoStart(caller, platform)
  \/ \E ok \in BOOLEAN : VoNoKeyBeep(ok)
  \/ \E ok \in BOOLEAN : VoTtsMkdir(ok)
  \/ \E outcome \in FetchOutcomes : VoAttempt(outcome)
  \/ \E ok \in BOOLEAN : VoFallbackBeep(ok)
  \/ \E outcome \in SynthOutcomes : VoSynth(outcome)
  \/ \E ok \in BOOLEAN : VoBeep(ok)
  \/ \E ok \in BOOLEAN : VoCatchBeep(ok)

SpecVoice == InitVoice /\ [][NextVoice]_vars

\* The steps of a play call that complete by themselves: the synchronous file
\* writes, and the TTS request, which AbortSignal.timeout(TIMEOUT_MS) ends and
\* whose backoff is a timer of at most 5 s (minimax-tts.ts lines 259-294).
\* The wait on the say/espeak child (voice.ts lines 86-111) ends only when the
\* child emits close or error, which no timer forces: no fairness on VoSynth.
VoiceFairness ==
  /\ WF_vars(\E ok \in BOOLEAN : VoNoKeyBeep(ok))
  /\ WF_vars(\E ok \in BOOLEAN : VoTtsMkdir(ok))
  /\ WF_vars(\E outcome \in FetchOutcomes : VoAttempt(outcome))
  /\ WF_vars(\E ok \in BOOLEAN : VoFallbackBeep(ok))
  /\ WF_vars(\E ok \in BOOLEAN : VoBeep(ok))
  /\ WF_vars(\E ok \in BOOLEAN : VoCatchBeep(ok))

SpecVoiceLive == InitVoice /\ [][NextVoice]_vars /\ VoiceFairness

\* Date.now() advances under the judge's rate limiter
TickJudge ==
  /\ clock < MaxJudgeTicks * JudgeStep
  /\ clock' = clock + JudgeStep
  /\ UNCHANGED <<env, auxVars, gsVars, saVars, pipeVars>>

\* The judge: credentials and flag missing, both set, the key without the flag
JudgeEnvs ==
  { EnvWith(<<>>),
    EnvWith([MINIMAX_API_KEY |-> NotANumber, ENABLE_MINIMAX_VLM |-> Num(1)]),
    EnvWith([MINIMAX_API_KEY |-> NotANumber]) }

InitJudge == \E e \in JudgeEnvs : InitWith(e)

\* the inputs sent through the rate limiter: per camera, one that the local
\* rule finds likely and one with dwell time only
RateInputs ==
  {i \in JudgeInputs : ~i.torsoRatioSpike /\ (i.exitWithoutCheckout <=> ~i.dwell)}

NextJudge ==
  \/ ~jLast.called /\ initConcealmentJudge
  \/ \E input \in RateInputs :
       /\ Len(judgeLog[input.cameraId]) <
            (IF input.cameraId = "cam-1" THEN MaxJudgeLet ELSE MaxOtherLet)
       /\ JudgeCall(input)
  \/ TickJudge

SpecJudge == InitJudge /\ [][NextJudge]_vars

\* The judges as functions of their input: a few calls, every input
NextJudgeFn ==
  \/ ~jLast.called /\ initConcealmentJudge
  \/ \E input \in JudgeInputs :
       /\ Len(judgeLog["cam-1"]) + Len(judgeLog["cam-2"]) < MaxJudgeCalls
       /\ JudgeCall(input)

SpecJudgeFn == InitJudge /\ [][NextJudgeFn]_vars

\* The tracker: frame after frame, each with up to MaxDets detections
Detections == UNION {[1..n -> Boxes] : n \in 0..MaxDets}

InitTrack == InitWith(EnvWith(<<>>))

\* one frame after another
NextTrack ==
  \E dets \in Detections :
    /\ trkLast.nowMs < MaxFrames
    /\ updateTracks(dets, trkLast.nowMs + 1)

SpecTrack == InitTrack /\ [][NextTrack]_vars

\* frames and resets of the tracker
NextReset ==
  \/ NextTrack
  \/ resetTracks

SpecReset == InitTrack /\ [][NextReset]_vars

\* one person in every frame, moving between two overlapping boxes
HistDetections == {<<Box(0, 3)>>, <<Box(1, 4)>>}

NextHist ==
  \E dets \in HistDetections :
    /\ trkLast.nowMs < MaxHistFrames
    /\ updateTracks(dets, trkLast.nowMs + 1)

SpecHist == InitTrack /\ [][NextHist]_vars

\* up to two people per frame, each of them absent from some frames
AbsentDetections ==
  UNION {[1..n -> {Box(0, 3), Box(1, 4), Box(3, 10)}] : n \in 0..2}

NextAbsent ==
  \E dets \in AbsentDetections :
    /\ trkLast.nowMs < MaxAbsentFrames
    /\ updateTracks(dets, trkLast.nowMs + 1)

SpecAbsent == InitTrack /\ [][NextAbsent]_vars

\* process.env.X = value while the process runs
SetEnv(e) ==
  /\ env' = e
  /\ env' # env
  /\ UNCHANGED <<clock, auxVars, gsVars, saVars, pipeVars>>

\* Strategy selection: MiniMax (TTS and VLM) off, and on
StrategyEnvs ==
  { EnvWith([SHOPLIFT_PERSISTENCE_COUNT |-> Num(1), SHOPLIFT_COOLDOWN_SECONDS |-> Num(0)]),
    EnvWith([SHOPLIFT_PERSISTENCE_COUNT |-> Num(1), SHOPLIFT_COOLDOWN_SECONDS |-> Num(0),
             MINIMAX_API_KEY |-> NotANumber, ENABLE_MINIMAX_TTS |-> Num(1),
             ENABLE_MINIMAX_VLM |-> Num(1)]) }

InitStrategy == \E e \in StrategyEnvs : InitWith(e)

JudgeQuiet == ~jLast.called /\ defaultJudge = "local" /\ rateCount = <<>>

PipeUntouched == \A p \in Runs : run[p] = NoRun

\* changes of the environment between init calls and judge calls, or between
\* pipeline runs
NextStrategy ==
  \/ \E e \in StrategyEnvs : SetEnv(e)
  \/ PipeUntouched /\ initConcealmentJudge
  \/ \E input \in RateInputs :
       /\ PipeUntouched
       /\ Len(judgeLog[input.cameraId]) < MaxOtherLet
       /\ JudgeCall(input)
  \/ \E p \in Runs : JudgeQuiet /\ PipeStep(p)

SpecStrategy == InitStrategy /\ [][NextStrategy]_vars

\* Zone configurations: the i-th zone has id z<i>; every type; disabled,
\* enabled and not holding the track's centre, enabled and holding it
ZoneIds == <<"z1", "z2", "z3">>

ZoneStates == {<<FALSE, FALSE>>, <<TRUE, FALSE>>, <<TRUE, TRUE>>}

ZoneConfigs ==
  UNION {
    {[i \in 1..n |-> Zone(ZoneIds[i], f[i][1], f[i][2][1], f[i][2][2])] :
       f \in [1..n -> ZoneTypes \X ZoneStates]} : n \in 0..MaxZones}

\* now_ms of the calls, and the entered_ms of the visits: 60.001 s, 60 s
\* and 6 s before it
SusNow == 70000

EnteredTimes == {9999, 10000, 64000}

Visits ==
  [zone_id : {"z1", "z2"}, zone_type : {"checkout", "high_theft"},
   entered_ms : EnteredTimes]

ZoneHistories == UNION {[1..n -> Visits] : n \in 0..MaxVisits}

TorsoBox(w, h) == [x1 |-> 0, y1 |-> 0, x2 |-> w, y2 |-> h]

\* bbox histories: four boxes; five alike; a last box 0.25 and one 0.2 above
\* the mean; no change of ratio at changing height
TorsoHistories ==
  { <<TorsoBox(16, 16), TorsoBox(16, 16), TorsoBox(16, 16), TorsoBox(32, 16)>>,
    <<TorsoBox(16, 16), TorsoBox(16, 16), TorsoBox(16, 16), TorsoBox(16, 16),
      TorsoBox(16, 16)>>,
    <<TorsoBox(16, 16), TorsoBox(16, 16), TorsoBox(16, 16), TorsoBox(16, 16),
      TorsoBox(21, 16)>>,
    <<TorsoBox(32, 16), TorsoBox(16, 16), TorsoBox(16, 16), TorsoBox(16, 16),
      TorsoBox(8, 8), TorsoBox(10, 8)>> }

SuspicionInput(h, z, v) ==
  [track |-> [bbox |-> h[Len(h)], bbox_history |-> h], zones |-> z,
   zone_history |-> v, now_ms |-> SusNow]

InitSuspicion == InitWith(EnvWith(<<>>))

\* one call per behaviour, of every input
NextSuspicion ==
  /\ ~susLast.called
  /\ \E h \in TorsoHistories, z \in ZoneConfigs, v \in ZoneHistories :
       SuspicionCall(SuspicionInput(h, z, v))

\* computeSuspicion under the default configuration
SpecSuspicion == InitSuspicion /\ [][NextSuspicion]_vars

\* Tracks for the person-only pipeline: all three terms (85), exit and
\* dwell (65), exit and spike (60), nothing (0)
E2EZones == <<Zone("z1", "exit", TRUE, TRUE), Zone("z2", "high_theft", TRUE, FALSE)>>

E2EDwell == <<[zone_id |-> "z2", zone_type |-> "high_theft", entered_ms |-> 10000]>>

E2ESpike ==
  <<TorsoBox(16, 16), TorsoBox(16, 16), TorsoBox(16, 16), TorsoBox(16, 16),
    TorsoBox(21, 16)>>

E2ESteady ==
  <<TorsoBox(16, 16), TorsoBox(16, 16), TorsoBox(16, 16), TorsoBox(16, 16),
    TorsoBox(16, 16)>>

E2EInputs ==
  { SuspicionInput(E2ESpike, E2EZones, E2EDwell),
    SuspicionInput(E2ESteady, E2EZones, E2EDwell),
    SuspicionInput(E2ESpike, E2EZones, <<>>),
    SuspicionInput(E2ESteady, <<>>, <<>>) }

InitE2E == InitWith(EnvWith(<<>>))

NextE2E ==
  \/ \E input \in E2EInputs, c \in Cameras, t \in Tracks :
       /\ Len(gsAdmitLog) < MaxE2ERuns
       /\ E2EReceive(input, c, t)
  \/ \E platform \in Platforms : E2EGate(platform)
  \/ \E outcome \in SynthOutcomes : VoSynth(outcome)
  \/ \E ok \in BOOLEAN : VoBeep(ok)
  \/ \E ok \in BOOLEAN : VoCatchBeep(ok)
  \/ E2ELog
  \/ e2e.pc \in {"idle", "done"} /\ Tick

\* The person-only pipeline under the default configuration
SpecE2E == InitE2E /\ [][NextE2E]_vars

InitPlayback == InitWith(EnvWith(<<>>))

\* requests to play, through the queue and directly, and the events of the
\* player processes, in every order
NextPlayback ==
  \/ \E audio \in Audios :
       /\ pb.asked < MaxPlays
       /\ playAudioNonBlocking(audio)
  \/ \E audio \in Audios :
       /\ pb.asked < MaxPlays
       /\ playNonBlocking(audio)
  \/ \E proc \in pb.procs : PbError(proc)
  \/ \E proc \in pb.procs : PbClose(proc)
  \/ \E installed \in BOOLEAN : PbInstall(installed)

SpecPlayback == InitPlayback /\ [][NextPlayback]_vars

\* the values of a field that the validation tells apart
FieldStrings == {Str("cam-1"), NumV(7), Undef}

EvConfidences == {NumV(-10), NumV(0), NumV(90), NumV(100), NumV(150), NaNV, Str("0.9"), Undef}

EvTypes == {Str(SHOPLIFTING_EVENT_TYPE), Str("person_detected"), Undef}

EvValues ==
  {EvNonObject("null"), EvNonObject("string")} \cup
  {EvObject(ty, c, l, conf, ts) : ty \in EvTypes, c \in FieldStrings,
     l \in {Str("Aisle 6"), Undef}, conf \in EvConfidences, ts \in {Str("iso"), NumV(7)}}

\* isShopliftingEvent on every value
NextValidate == ~bd.called /\ \E ev \in EvValues : Validate(ev)

SpecValidate == InitWith(EnvWith(<<>>)) /\ [][NextValidate]_vars

\* the values handed to the pipeline: well-formed events, events of another
\* type, with a number as camera_id, with a confidence above 1, and null
BoundaryEvents ==
  {EvNonObject("null")} \cup
  {EvObject(ty, c, Str("Aisle 6"), conf, Str("iso")) :
     ty \in {Str(SHOPLIFTING_EVENT_TYPE), Str("person_detected")},
     c \in {Str("cam-1"), NumV(7)}, conf \in {NumV(50), NumV(90), NumV(150)}}

\* one call of runShopliftAlertPipeline, made directly or by the detect
\* route, and the later steps of that call
NextBoundary ==
  \/ ~bd.called /\ \E p \in Runs, ev \in BoundaryEvents : PipelineOn(p, ev)
  \/ ~bd.called /\ \E p \in Runs, cameraId \in {Str("cam-1"), NumV(7), Undef},
        zoneName \in {Str("Aisle 6"), Undef}, score \in {75, 100} :
       DetectPost(p, cameraId, zoneName, score)
  \/ \E p \in Runs : PipeRest(p)
  \/ (\E p \in Runs : run[p].pc = "idle") /\ Tick

SpecBoundary == InitPipe /\ [][NextBoundary]_vars

\* the values a knob is configured with: unset, empty, white space, words, and
\* numbers below, at and above the ends of every range
ConfigValues ==
  {Unset, Empty, Blank, NotANumber, TrueText} \cup
  {Num(n) : n \in {-1, 0, 1, 2, 50, 100, 101}}

InitConfig == \E knob \in Knobs, v \in ConfigValues : InitWith(EnvWith((knob :> v)))

NextConfig == ~cfg.called /\ \E knob \in Knobs : ConfigRead(knob)

\* every knob read under every configured value of one knob
SpecConfig == InitConfig /\ [][NextConfig]_vars

\* Both gates, each evaluated and reset in any order; a configuration names
\* the gate it is for, and the default configuration serves one gate at a time
NextGateReset ==
  \/ /\ env \in GsEnvs /\ SaQuiet /\ clock = 0
     /\ \/ \E c \in Cameras, t \in Tracks, conf \in GsConfidences, now_ms \in OptTimes :
             /\ Len(gsAdmitLog) < MaxAdmits
             /\ alertGateGS(c, t, conf, now_ms)
        \/ resetGateSeen
  \/ /\ env \in SaEnvs /\ GsQuiet
     /\ \/ \E c \in Cameras, conf \in SaConfidences :
             /\ Len(saOccurrences) < MaxOccurrences
             /\ alertGate(c, conf)
        \/ resetAlertGateSeen
        \/ Tick

\* the default configuration, and the unit tests' one (persistence off)
ResetEnvs ==
  { EnvWith(<<>>),
    EnvWith([SHOPLIFT_PERSISTENCE_COUNT |-> Num(1),
             SHOPLIFT_PERSISTENCE_WINDOW_MS |-> Num(0),
             SHOPLIFT_COOLDOWN_SECONDS |-> Num(20)]) }

SpecGateReset == (\E e \in ResetEnvs : InitWith(e)) /\ [][NextGateReset]_vars

\* ------------------------------------------------------------------------
\* Properties
\* ------------------------------------------------------------------------
Front(q) == SubSeq(q, 1, Len(q) - 1)

\* the admit history of the grocery-shoplift gate before its latest evaluation
GsPreLog == IF gsLast.called /\ gsLast.allow THEN Front(gsAdmitLog) ELSE gsAdmitLog

\* index of the latest entry of log with field f equal to key, 0 when none
LastIndex(log, f, key) ==
  LET S == {i \in 1..Len(log) : log[i][f] = key}
  IN  IF S = {} THEN 0 ELSE CHOOSE i \in S : \A j \in S : j <= i

\* the key was last admitted less than cooldownMs before now, by the history
HeldBy(log, f, key, now, cooldownMs) ==
  LET i == LastIndex(log, f, key)
  IN  i > 0 /\ now - log[i].now < cooldownMs

Dist(a, b) == IF a >= b THEN a - b ELSE b - a

\* C1: in the grocery-shoplift gate, an evaluation that meets the minimum
\* confidence is rejected with camera_cooldown exactly when the history's
\* latest admit for that camera lies less than the camera cooldown before the
\* event's time (now - last < C), and any two admitted events for one camera
\* are at least the camera cooldown apart.
C1_CameraCooldown ==
  /\ (gsLast.called /\ gsLast.conf >= getJudgeMinConfidence(env)) =>
       ((gsLast.reason = "camera_cooldown") <=>
          HeldBy(GsPreLog, "camera_id", gsLast.camera_id, gsLast.now,
                 getCameraCooldown(env) * 1000))
  /\ \A i, j \in 1..Len(gsAdmitLog) :
       (i < j /\ gsAdmitLog[i].camera_id = gsAdmitLog[j].camera_id) =>
         Dist(gsAdmitLog[j].now, gsAdmitLog[i].now) >= getCameraCooldown(env) * 1000

\* C1 witness: cooldown 20 s, cam-1 admitted at 0 and again at +25 s (the
\* evaluation at +5 s in between was rejected, or the second admit could not
\* be the 2nd entry), the latest evaluation being that second admit.
C1_Witness ==
  /\ getCameraCooldown(env) = 20
  /\ Len(gsAdmitLog) = 2
  /\ gsAdmitLog[1].camera_id = "cam-1" /\ gsAdmitLog[1].now = 0
  /\ gsAdmitLog[2].camera_id = "cam-1" /\ gsAdmitLog[2].now = 25000
  /\ gsLast.called /\ gsLast.allow /\ gsLast.now = 25000

\* the admit history of the shoplift-alerts gate before its latest evaluation
SaPreLog == IF saLast.called /\ saLast.allowed THEN Front(saAdmitLog) ELSE saAdmitLog

\* any two entries of an admit history with the same key (field f) are at
\* least cooldownMs apart
Spaced(log, f, cooldownMs) ==
  \A i, j \in 1..Len(log) :
    (i < j /\ log[i][f] = log[j][f]) => Dist(log[j].now, log[i].now) >= cooldownMs

\* C2: two gate evaluations for the same camera (shoplift-alerts gate, called
\* from concurrent pipeline runs suspended at their awaits; grocery-shoplift
\* gate) or for the same track (grocery-shoplift gate) that lie within one
\* cooldown window are never both admitted: the admitted events of one key
\* are at least that key's cooldown apart in every interleaving.
C2_NeverBothAdmitted ==
  /\ Spaced(saAdmitLog, "camera_id", getCooldownSeconds(env) * 1000)
  /\ Spaced(gsAdmitLog, "camera_id", getCameraCooldown(env) * 1000)
  /\ Spaced(gsAdmitLog, "track_id", getTrackCooldown(env) * 1000)

\* C2 witness: two pipeline runs in flight at once for the same camera inside
\* one cooldown window: the first admitted and still suspended before its log
\* write, the second rejected with cooldown and suspended at its log write.
C2_Witness ==
  /\ getCooldownSeconds(env) = 20
  /\ run[1].allowed /\ run[1].pc \in {"tts", "voice", "logTriggered"}
  /\ run[2].pc = "logReject" /\ run[2].reason = "cooldown"
  /\ Len(saAdmitLog) = 1
  /\ saLast.camera_id = saAdmitLog[1].camera_id
  /\ saLast.now - saAdmitLog[1].now = 10000

\* C3: an evaluation is rejected for confidence exactly when its confidence
\* is below the configured minimum, whatever the cooldown state is: with
\* below_confidence by the grocery-shoplift gate, with below_threshold by the
\* shoplift-alerts gate; at or above the minimum neither reason is returned.
C3_BelowMinimumRejected ==
  /\ gsLast.called =>
       ((gsLast.reason = "below_confidence") <=>
          (gsLast.conf < getJudgeMinConfidence(env)))
  /\ gsLast.called /\ gsLast.conf < getJudgeMinConfidence(env) => ~gsLast.allow
  /\ saLast.called =>
       ((saLast.reason = "below_threshold") <=> (saLast.conf < getMinConfidence(env)))
  /\ saLast.called /\ saLast.conf < getMinConfidence(env) => ~saLast.allowed

\* C3 witness: a below-minimum event rejected with below_confidence while its
\* camera is inside the cooldown of an earlier admit.
C3_Witness ==
  /\ gsLast.called /\ gsLast.reason = "below_confidence"
  /\ HeldBy(gsAdmitLog, "camera_id", gsLast.camera_id, gsLast.now,
            getCameraCooldown(env) * 1000)

\* C4: shoplift-alerts gate.  No two allowed events of one camera are less
\* than the cooldown apart; the gate's entry of each camera is the time of
\* that camera's latest admit and of no other camera's; and with persistence
\* disabled an above-threshold event is rejected with "cooldown" exactly when
\* its own camera was admitted less than the cooldown earlier, and is allowed
\* otherwise (so the first one is allowed).
C4_CameraCooldownSA ==
  /\ Spaced(saAdmitLog, "camera_id", getCooldownSeconds(env) * 1000)
  /\ \A c \in Cameras :
       LET i == LastIndex(saAdmitLog, "camera_id", c)
       IN  /\ (c \in DOMAIN lastTriggerByCamera) <=> (i > 0)
           /\ i > 0 => lastTriggerByCamera[c] = saAdmitLog[i].now
  /\ (saLast.called /\ ~saPersistenceOn(env) /\ saLast.conf >= getMinConfidence(env)) =>
       LET held == HeldBy(SaPreLog, "camera_id", saLast.camera_id, saLast.now,
                          getCooldownSeconds(env) * 1000)
       IN  /\ (saLast.reason = "cooldown") <=> held
           /\ saLast.allowed <=> ~held

\* C4 witness: persistence disabled, cooldown 20 s: cam-1 allowed at 0, cam-2
\* allowed at +10 s, then cam-1 rejected with cooldown at +10 s.
C4_Witness ==
  /\ ~saPersistenceOn(env) /\ getCooldownSeconds(env) = 20
  /\ saAdmitLog = << [camera_id |-> "cam-1", now |-> 0],
                     [camera_id |-> "cam-2", now |-> 10000] >>
  /\ saLast.called /\ saLast.camera_id = "cam-1" /\ saLast.now = 10000
  /\ saLast.reason = "cooldown"

\* C5 (as stated): past the confidence and camera checks an event is rejected
\* with track_cooldown exactly when its track was last admitted, on whatever
\* camera, less than the track cooldown earlier; and with a track cooldown of
\* zero no event is ever rejected with track_cooldown.
C5_TrackCooldown ==
  gsLast.called =>
    /\ (gsLast.conf >= getJudgeMinConfidence(env)
        /\ ~HeldBy(GsPreLog, "camera_id", gsLast.camera_id, gsLast.now,
                   getCameraCooldown(env) * 1000)) =>
         ((gsLast.reason = "track_cooldown") <=>
            HeldBy(GsPreLog, "track_id", gsLast.track_id, gsLast.now,
                   getTrackCooldown(env) * 1000))
    /\ getTrackCooldown(env) = 0 => gsLast.reason # "track_cooldown"

\* the persistence buffer's history before the latest evaluation
SaPreOcc ==
  IF saLast.called /\ (saLast.allowed \/ saLast.reason = "persistence_not_met")
    THEN Front(saOccurrences) ELSE saOccurrences

\* occurrences of the latest event's camera inside the persistence window
\* that ends at the latest event, that event included
OccInWindow ==
  1 + Cardinality({i \in 1..Len(SaPreOcc) :
                     /\ SaPreOcc[i].camera_id = saLast.camera_id
                     /\ SaPreOcc[i].now >= saLast.now - getPersistenceWindowMs(env)})

\* C6: the checks run in the order confidence, camera cooldown, then track
\* cooldown (grocery-shoplift gate) or persistence (shoplift-alerts gate), and
\* the reason of a rejection is that of the first check that fails.
C6_CheckOrder ==
  /\ gsLast.called =>
       LET low == gsLast.conf < getJudgeMinConfidence(env)
           cam == HeldBy(GsPreLog, "camera_id", gsLast.camera_id, gsLast.now,
                         getCameraCooldown(env) * 1000)
           trk == HeldBy(GsPreLog, "track_id", gsLast.track_id, gsLast.now,
                         getTrackCooldown(env) * 1000)
       IN  /\ low => gsLast.reason = "below_confidence"
           /\ ~low /\ cam => gsLast.reason = "camera_cooldown"
           /\ ~low /\ ~cam /\ trk => gsLast.reason = "track_cooldown"
  /\ saLast.called =>
       LET low == saLast.conf < getMinConfidence(env)
           cam == HeldBy(SaPreLog, "camera_id", saLast.camera_id, saLast.now,
                         getCooldownSeconds(env) * 1000)
           few == saPersistenceOn(env) /\ OccInWindow < getPersistenceCount(env)
       IN  /\ low => saLast.reason = "below_threshold"
           /\ ~low /\ cam => saLast.reason = "cooldown"
           /\ ~low /\ ~cam /\ few => saLast.reason = "persistence_not_met"

\* C6 witness: an event at full confidence whose camera and whose track are
\* both inside their cooldowns is rejected with camera_cooldown.
C6_Witness ==
  /\ gsLast.called /\ gsLast.reason = "camera_cooldown"
  /\ HeldBy(gsAdmitLog, "track_id", gsLast.track_id, gsLast.now,
            getTrackCooldown(env) * 1000)
  /\ HeldBy(gsAdmitLog, "camera_id", gsLast.camera_id, gsLast.now,
            getCameraCooldown(env) * 1000)

\* C7 (as stated): under a persistence rule (N, W) an event past the
\* confidence and cooldown checks is admitted exactly when it is at least the
\* N-th occurrence for its camera within W, for every configured N; with the
\* rule off nothing is rejected for persistence.
C7_PersistenceRule ==
  saLast.called =>
    /\ (saPersistenceOn(env) /\ (saLast.allowed \/ saLast.reason = "persistence_not_met")) =>
         (saLast.allowed <=> OccInWindow >= getPersistenceCount(env))
    /\ ~saPersistenceOn(env) => saLast.reason # "persistence_not_met"

\* the records a pipeline run wrote to the incident log
RecordsOf(p) == {i \in 1..Len(incidents) : incidents[i].run = p}

\* the run's gate call returned a rejection
GateRejected(p) == run[p].pc \in {"logReject", "done"} /\ ~run[p].allowed /\ run[p].reason # "none"

\* C8 (as stated): every rejection reason a gate returns, and the one in the
\* suppressed record of a gate-rejected run, is one of below_confidence,
\* camera_cooldown, track_cooldown, persistence_not_met.
C8_ReasonsOneSet ==
  LET S == {"below_confidence", "camera_cooldown", "track_cooldown", "persistence_not_met"}
  IN  /\ gsLast.called /\ ~gsLast.allow => gsLast.reason \in S
      /\ saLast.called /\ ~saLast.allowed => saLast.reason \in S
      /\ \A p \in Runs : GateRejected(p) =>
           \A i \in RecordsOf(p) : incidents[i].reason \in S

\* C8 (amended): the grocery-shoplift gate rejects with below_confidence,
\* camera_cooldown or track_cooldown; the shoplift-alerts gate rejects with
\* below_threshold, cooldown or persistence_not_met, and the suppressed record
\* of a gate-rejected pipeline run carries exactly the reason that gate gave.
C8_ReasonsPerGate ==
  /\ gsLast.called /\ ~gsLast.allow =>
       gsLast.reason \in {"below_confidence", "camera_cooldown", "track_cooldown"}
  /\ saLast.called /\ ~saLast.allowed =>
       saLast.reason \in {"below_threshold", "cooldown", "persistence_not_met"}
  /\ \A p \in Runs : GateRejected(p) =>
       /\ run[p].reason \in {"below_threshold", "cooldown", "persistence_not_met"}
       /\ \A i \in RecordsOf(p) :
            incidents[i].status = "suppressed" /\ incidents[i].reason = run[p].reason

\* C8 witness: a finished pipeline run rejected for cooldown whose suppressed
\* record carries the reason cooldown.
C8_Witness ==
  \E p \in Runs :
    /\ run[p].pc = "done" /\ GateRejected(p) /\ run[p].reason = "cooldown"
    /\ \E i \in RecordsOf(p) :
         incidents[i].status = "suppressed" /\ incidents[i].reason = "cooldown"

\* C9 (as stated): a finished pipeline run whose log writes all succeeded has
\* appended exactly one record, also when an error is thrown after the record
\* was written, and a suppressed record has a non-empty reason.
C9_ExactlyOneRecord ==
  /\ \A p \in Runs :
       (run[p].pc = "done" /\ ~run[p].logFailed) => Cardinality(RecordsOf(p)) = 1
  /\ \A i \in 1..Len(incidents) :
       incidents[i].status = "suppressed" => incidents[i].reason \notin {"", "none"}

\* C10: a pipeline run never ends in a rejected promise: a finished run has
\* resolved to a structured result (triggered with an audio path, or not
\* triggered with a reason), and a failed log write leaves that result as it
\* is: a gate-rejected run resolves to the gate's reason, any other run to
\* triggered or to pipeline_error, whether or not its log write failed.
C10_NeverRejects ==
  \A p \in Runs :
    /\ run[p].result.state # "rejected"
    /\ run[p].pc = "done" <=> run[p].result.state = "resolved"
    /\ run[p].pc = "done" =>
         /\ run[p].result.triggered => run[p].result.audioPath # "none"
         /\ ~run[p].result.triggered => run[p].result.reason # "none"
         /\ GateRejected(p) => run[p].result = Resolved(FALSE, run[p].reason, "none")
         /\ ~GateRejected(p) =>
              \/ run[p].result = Resolved(TRUE, "none", run[p].audioPath)
              \/ run[p].result = Resolved(FALSE, "pipeline_error", "none")

\* C10 witness: a run whose playback import failed and whose log write in the
\* catch handler failed as well has resolved to pipeline_error.
C10_Witness ==
  \E p \in Runs :
    /\ run[p].pc = "done" /\ run[p].allowed /\ run[p].logFailed
    /\ Cardinality(RecordsOf(p)) = 1
    /\ run[p].result = Resolved(FALSE, "pipeline_error", "none")

\* C11 (as stated): a gate-rejected run produces no audio artifact, starts no
\* playback and writes only the suppressed record with the gate's reason; an
\* admitted run has its artifact before its triggered record is written, and
\* playback is started only after that record, when the run has finished as
\* triggered.
C11_PipelinePaths ==
  \A p \in Runs :
    /\ GateRejected(p) =>
         /\ run[p].audioPath = "none" /\ run[p].played = 0
         /\ \A i \in RecordsOf(p) :
              incidents[i].status = "suppressed" /\ incidents[i].reason = run[p].reason
    /\ (\E i \in RecordsOf(p) : incidents[i].status = "triggered") =>
         run[p].allowed /\ run[p].audioPath # "none"
    /\ run[p].played > 0 =>
         run[p].pc = "done" /\ run[p].result.triggered /\ run[p].played = 1

\* C12 (as stated): a run that ended in the catch handler returns
\* {triggered: false, reason: "pipeline_error"}, and the suppressed record the
\* handler wrote carries that same reason, pipeline_error.
C12_ErrorRecordReason ==
  \A p \in Runs :
    (run[p].pc = "done" /\ run[p].result.reason = "pipeline_error") =>
      /\ run[p].result = Resolved(FALSE, "pipeline_error", "none")
      /\ \A i \in RecordsOf(p) :
           incidents[i].status = "suppressed" =>
             incidents[i].reason = run[p].result.reason

\* C13: with no external credentials the strategy in use is the local voice,
\* and its play() never reports a failure: it resolves with success = true,
\* the local backend and a wav or tone file; a failed speech synthesis (tool
\* absent, spawn error, non-zero exit) ends in the tone file; play() rejects
\* only when writing the tone file itself failed.
C13_LocalVoiceSucceeds ==
  /\ ~createMiniMaxVoiceAlert(env) => defaultVoice = "local"
  /\ (vo.caller = "voice" /\ defaultVoice = "local" /\ vo.pc = "done") =>
       /\ vo.result.state \in {"resolved", "rejected"}
       /\ vo.result.state = "resolved" =>
            /\ vo.result.success /\ vo.result.voiceUsed = "local"
            /\ vo.result.audioPath \in {"wav", "beep"}
       /\ vo.result.state = "rejected" => vo.ioFault
       /\ (vo.synth \in {"absent", "nonzero"} /\ ~vo.ioFault) =>
            vo.result = VoResult(TRUE, "beep", "local")

\* C13 witness: no credentials, Linux, espeak absent: play() has resolved with
\* success and the tone file.
C13_Witness ==
  /\ ~createMiniMaxVoiceAlert(env) /\ vo.caller = "voice" /\ vo.platform = "linux"
  /\ vo.pc = "done" /\ vo.synth = "absent" /\ ~vo.ioFault
  /\ vo.result = VoResult(TRUE, "beep", "local")

\* C14 (as stated): whatever fails on the external side (retries exhausted, a
\* non-retryable failure such as HTTP 400 or 401, credentials or flag missing)
\* the caller of the voice request receives an audio artifact with success;
\* it sees a failure only when a local directory or file operation failed.
C14_FallsBackToLocal ==
  (vo.pc = "done" /\ ~vo.ioFault) =>
    /\ vo.result.state = "resolved" /\ vo.result.success
    /\ vo.result.audioPath # "none"
    /\ (vo.attempts # <<>> /\ vo.attempts[Len(vo.attempts)] # "audio") =>
         vo.result.voiceUsed = "local"

\* C15 (as stated): one TTS request makes at most 3 attempts, and every
\* attempt that is followed by another one ended in HTTP 429, HTTP 5xx or a
\* timeout.
C15_RetryOnlyRetryable ==
  /\ Len(vo.attempts) <= MAX_RETRIES + 1
  /\ \A i \in 1..(Len(vo.attempts) - 1) :
       vo.attempts[i] \in {"http429", "http5xx", "timeout"}

\* C16: the MiniMax judge is the strategy in use only with the key and the
\* flag set, and every call of judge(), rate-limited or let through, returns
\* exactly the local judge's result for its input.
C16_JudgeDelegates ==
  /\ defaultJudge = "minimax" => createMiniMaxVLMJudge(env)
  /\ jLast.called =>
       /\ jLast.strategy = "minimax" => createMiniMaxVLMJudge(env)
       /\ jLast.result = LocalFallbackJudge(jLast.input)

\* C16 witness: the MiniMax judge refused by its rate limiter answers with
\* the local verdict "alert".
C16_Witness ==
  /\ jLast.called /\ jLast.strategy = "minimax" /\ ~jLast.through
  /\ jLast.input.exitWithoutCheckout /\ jLast.result.recommended_action = "alert"

\* the rate limiter's history of the latest call's camera before that call
JPreLog ==
  IF jLast.called /\ jLast.through THEN Front(judgeLog[jLast.input.cameraId])
  ELSE judgeLog[jLast.input.cameraId]

\* C17: per camera, any 7 consecutive calls let through span more than 60 s,
\* so no 60 s window holds more than 6; and a call is let through exactly
\* when fewer than 6 calls of its own camera were let through in the 60 s
\* up to it.
C17_RateLimit ==
  /\ \A c \in Cameras :
       \A i \in 1..Len(judgeLog[c]) :
         i + RATE_LIMIT_PER_CAMERA <= Len(judgeLog[c]) =>
           judgeLog[c][i + RATE_LIMIT_PER_CAMERA] - judgeLog[c][i] > RATE_WINDOW_MS
  /\ (jLast.called /\ jLast.strategy = "minimax") =>
       (jLast.through <=>
          Cardinality({i \in 1..Len(JPreLog) : JPreLog[i] >= jLast.now - RATE_WINDOW_MS})
            < RATE_LIMIT_PER_CAMERA)

\* C17 witness: six calls of cam-1 let through at 0, a call of cam-1 refused
\* at exactly +60 s, while cam-2 was let through.
C17_Witness ==
  /\ jLast.now = 60000 /\ Len(judgeLog["cam-1"]) = 6 /\ judgeLog["cam-1"][6] = 0
  /\ Len(judgeLog["cam-2"]) > 0
  /\ jLast.called /\ jLast.strategy = "minimax" /\ jLast.input.cameraId = "cam-1"
  /\ ~jLast.through

\* C18: the local judge's verdict is a function of the two flags:
\* concealment_likely = exit_without_checkout OR torso_ratio_spike, confidence
\* 0.7 when likely and 0.2 otherwise, recommended_action "alert" exactly when
\* likely (and confidence >= 0.7), else "log_only"; dwell time has no effect.
C18_LocalJudge ==
  jLast.called =>
    LET likely == jLast.input.exitWithoutCheckout \/ jLast.input.torsoRatioSpike
    IN  /\ jLast.result.concealment_likely = likely
        /\ jLast.result.confidence_0_1 = (IF likely THEN 70 ELSE 20)
        /\ jLast.result.recommended_action =
             (IF likely /\ jLast.result.confidence_0_1 >= 70 THEN "alert" ELSE "log_only")

\* C18 witness: the local judge given dwell time only answers not likely,
\* 0.2, log_only.
C18_Witness ==
  /\ jLast.called /\ jLast.strategy = "local"
  /\ jLast.input.dwell /\ ~jLast.input.exitWithoutCheckout /\ ~jLast.input.torsoRatioSpike
  /\ ~jLast.result.concealment_likely /\ jLast.result.confidence_0_1 = 20
  /\ jLast.result.recommended_action = "log_only"

\* C19 (as stated): the strategy is selected once: all admitted pipeline runs
\* take the same voice, MiniMax TTS or local, and every judge call uses the
\* strategy of the first judge call, whatever init calls and changes of the
\* environment lie between them.
C19_StrategyImmutable ==
  /\ \A p, q \in Runs :
       (run[p].strategy # "none" /\ run[q].strategy # "none") =>
         run[p].strategy = run[q].strategy
  /\ jLast.called => jLast.strategy = jLast.first

\* the tracks a detection k of the last updateTracks call could be matched
\* to: the tracks held before the call and the tracks minted for earlier
\* detections of the call, less those an earlier detection was matched to
TrkPreIds == {trkLast.pre[i].track_id : i \in 1..Len(trkLast.pre)}

TrkMinted(k) ==
  {i \in 1..(k - 1) :
     /\ trkLast.result[i].track_id \notin TrkPreIds
     /\ \A j \in 1..(i - 1) : trkLast.result[j].track_id # trkLast.result[i].track_id}

TrkMatchedIds(k) ==
  {trkLast.result[i].track_id : i \in (1..(k - 1)) \ TrkMinted(k)}

TrkCandidates(k) ==
  LET all == {[id |-> trkLast.pre[i].track_id, bbox |-> trkLast.pre[i].bbox,
               first_seen |-> trkLast.pre[i].first_seen] : i \in 1..Len(trkLast.pre)}
               \cup
             {[id |-> trkLast.result[i].track_id, bbox |-> trkLast.dets[i],
               first_seen |-> trkLast.nowMs] : i \in TrkMinted(k)}
  IN  {c \in all :
         /\ c.id \notin TrkMatchedIds(k)
         /\ iouUnion(c.bbox, trkLast.dets[k]) > 0
         /\ 10 * iouInter(c.bbox, trkLast.dets[k]) > 3 * iouUnion(c.bbox, trkLast.dets[k])}

\* C20: a detection with an unmatched track of IOU above 0.3 is returned
\* with the track_id and first_seen of a highest-IOU such track; a detection
\* without one is returned with an id no track had before and first_seen now.
C20_GreedyMatch ==
  trkLast.called =>
    \A k \in 1..Len(trkLast.dets) :
      LET d == trkLast.dets[k]
          r == trkLast.result[k]
          C == TrkCandidates(k)
      IN  IF C # {}
            THEN \E c \in C :
                   /\ r.track_id = c.id
                   /\ r.first_seen = c.first_seen
                   /\ \A o \in C :
                        iouInter(o.bbox, d) * iouUnion(c.bbox, d) <=
                          iouInter(c.bbox, d) * iouUnion(o.bbox, d)
            ELSE /\ r.track_id \notin
                      TrkPreIds \cup {trkLast.result[i].track_id : i \in 1..(k - 1)}
                 /\ r.first_seen = trkLast.nowMs

\* D1 = [0, 3] at frame 1 made track 1; D2 = [1, 4] at frame 2, IOU 0.5, is
\* returned as track 1, first seen at frame 1
C20_Witness ==
  /\ trkLast.called /\ trkLast.nowMs = 2
  /\ Len(trkLast.pre) = 1
  /\ trkLast.pre[1].track_id = 1 /\ trkLast.pre[1].bbox = Box(0, 3)
  /\ trkLast.pre[1].first_seen = 1
  /\ trkLast.dets = <<Box(1, 4)>>
  /\ trkLast.result[1].track_id = 1 /\ trkLast.result[1].first_seen = 1
  /\ nextTrackId = 2

\* C21 (as stated): over updateTracks and resetTracks every newly minted
\* track_id is larger than every track_id minted before, and a stored track
\* keeps its track_id and first_seen through an update.
C21_IdentityNeverReused ==
  trkLast.called =>
    /\ \A k \in 1..Len(trkLast.result) :
         trkLast.result[k].track_id \notin TrkPreIds =>
           trkLast.result[k].track_id > trkLast.mintedBefore
    /\ \A i \in 1..Len(trkLast.pre) :
         /\ activeTracks[i].track_id = trkLast.pre[i].track_id
         /\ activeTracks[i].first_seen = trkLast.pre[i].first_seen

\* C22: every stored bbox_history holds 1 to 10 boxes and ends with the
\* track's bbox; a match appends the detection's box and, when the history
\* already held 10, evicts its oldest box.
C22_HistoryFifo ==
  /\ \A i \in 1..Len(activeTracks) :
       LET h == activeTracks[i].bbox_history
       IN  /\ Len(h) >= 1 /\ Len(h) <= 10
           /\ h[Len(h)] = activeTracks[i].bbox
  /\ trkLast.called =>
       \A i \in 1..Len(trkLast.pre) : \A k \in 1..Len(trkLast.result) :
         trkLast.result[k].track_id = trkLast.pre[i].track_id =>
           LET old == trkLast.pre[i].bbox_history
               new == activeTracks[i].bbox_history
           IN  new = IF Len(old) < 10 THEN Append(old, trkLast.dets[k])
                     ELSE Append(Tail(old), trkLast.dets[k])

\* the 11th box of a track has arrived and the first one is gone
C22_Witness ==
  /\ trkLast.called /\ trkLast.nowMs = 11
  /\ Len(trkLast.pre) = 1 /\ Len(trkLast.pre[1].bbox_history) = 10
  /\ trkLast.pre[1].bbox_history[1] = Box(0, 3)
  /\ trkLast.pre[1].bbox_history[2] = Box(1, 4)
  /\ trkLast.result[1].track_id = 1
  /\ Len(activeTracks[1].bbox_history) = 10
  /\ activeTracks[1].bbox_history[1] = Box(1, 4)

C24_ExitWithoutCheckout ==
  susLast.called =>
    LET in == susLast.input
        c  == whichZone(in.zones)
        inExit == c > 0 /\ in.zones[c].type = "exit" /\ in.zones[c].enabled
        paid == \E i \in 1..Len(in.zone_history) :
                  /\ in.zone_history[i].zone_type = "checkout"
                  /\ in.zone_history[i].entered_ms >= in.now_ms - 60000
    IN  /\ susLast.result.exit_without_checkout <=> (inExit /\ ~paid)
        /\ susLast.result.exit_without_checkout => susLast.result.suspicion_score >= 40

\* the sum of now - entered_ms over the visits I of a history
RECURSIVE SumElapsed(_, _, _)
SumElapsed(I, history, now) ==
  IF I = {} THEN 0
  ELSE LET i == CHOOSE j \in I : TRUE
       IN  (now - history[i].entered_ms) + SumElapsed(I \ {i}, history, now)

HighTheftVisits(in) ==
  {i \in 1..Len(in.zone_history) : in.zone_history[i].zone_type = "high_theft"}

\* the high_theft visits to a zone the configuration lists as an enabled
\* high_theft zone
ConfiguredVisits(in) ==
  {i \in HighTheftVisits(in) :
     \E z \in 1..Len(in.zones) :
       /\ in.zones[z].id = in.zone_history[i].zone_id
       /\ in.zones[z].type = "high_theft" /\ in.zones[z].enabled}

HasTag(reasons, tag) == \E i \in 1..Len(reasons) : reasons[i].tag = tag

\* C25 (as stated): dwell_high_theft_sec is the sum of now - entered_ms over
\* all high_theft visits of the history (to a tenth of a second), and the
\* dwell term is added exactly when that sum is at least 12 s.
C25_DwellAllVisits ==
  susLast.called =>
    LET in == susLast.input
        ms == SumElapsed(HighTheftVisits(in), in.zone_history, in.now_ms)
    IN  /\ susLast.result.dwell_high_theft_sec = (ms + 50) \div 100
        /\ HasTag(susLast.result.reasons, "dwell_high_theft") <=> ms >= 12000

\* C25 (amended): dwell_high_theft_sec is the sum of now - entered_ms, rounded
\* to a tenth of a second, over the high_theft visits whose zone is an
\* enabled high_theft zone of the configuration, and the dwell term is added
\* exactly when the unrounded sum is at least 12 s.
C25_DwellConfiguredVisits ==
  susLast.called =>
    LET in == susLast.input
        ms == SumElapsed(ConfiguredVisits(in), in.zone_history, in.now_ms)
    IN  /\ susLast.result.dwell_high_theft_sec = (ms + 50) \div 100
        /\ HasTag(susLast.result.reasons, "dwell_high_theft") <=> ms >= 12000

\* two visits of 6 s to a configured high_theft zone reach the threshold
\* exactly, in a configuration that lacks zone z2
C25_Witness ==
  /\ susLast.called
  /\ Len(susLast.input.zones) = 1
  /\ susLast.input.zones[1] = Zone("z1", "high_theft", TRUE, FALSE)
  /\ susLast.input.zone_history =
       <<[zone_id |-> "z1", zone_type |-> "high_theft", entered_ms |-> 64000],
         [zone_id |-> "z1", zone_type |-> "high_theft", entered_ms |-> 64000]>>
  /\ susLast.result.dwell_high_theft_sec = 120
  /\ susLast.result.suspicion_score >= 25

\* C26: the score lies in 0..100 and is the sum of 40, 25 and 20 over the
\* triggered terms; reasons holds the tag of every triggered term, once, and
\* no other tag.
C26_ScoreIsSumOfTerms ==
  susLast.called =>
    LET in == susLast.input
        r  == susLast.result
        dwell == SumElapsed(ConfiguredVisits(in), in.zone_history, in.now_ms) >= 12000
        tags == {r.reasons[i].tag : i \in 1..Len(r.reasons)}
    IN  /\ r.suspicion_score >= 0 /\ r.suspicion_score <= 100
        /\ r.suspicion_score =
             (IF r.exit_without_checkout THEN 40 ELSE 0)
             + (IF dwell THEN 25 ELSE 0)
             + (IF r.torso_ratio_spike THEN 20 ELSE 0)
        /\ tags = (IF r.exit_without_checkout THEN {"exit_without_checkout"} ELSE {})
                  \cup (IF dwell THEN {"dwell_high_theft"} ELSE {})
                  \cup (IF r.torso_ratio_spike THEN {"torso_ratio_spike"} ELSE {})
        /\ Cardinality(tags) = Len(r.reasons)

\* all three terms triggered: score 85 and three reasons
C26_Witness ==
  /\ susLast.called
  /\ susLast.result.exit_without_checkout /\ susLast.result.torso_ratio_spike
  /\ susLast.result.suspicion_score = 85
  /\ Len(susLast.result.reasons) = 3
  /\ susLast.result.reasons[2].tag = "dwell_high_theft"

PbRunning == {proc \in pb.procs : proc.state = "running"}

\* C28 (as stated): at most one audio player process runs at any time, and
\* the audios are started in the order in which they were enqueued.
C28_PlaybackSerialized ==
  /\ Cardinality(PbRunning) <= 1
  /\ Len(pb.starts) <= Len(pb.enqueued)
  /\ \A i \in 1..Len(pb.starts) : pb.starts[i] = pb.enqueued[i]

\* C29 (as stated): a missing or failing audio player never crashes the host
\* process.
C29_PlayerNeverCrashesHost == ~pb.crashed

\* C30 (as stated): no step waits unboundedly; every call of play, which the
\* pipeline run awaits, eventually returns.
C30_EveryPlayReturns == (vo.pc \notin {"idle", "done"}) ~> (vo.pc = "done")

\* the part of C30 that the deadlines of the code give: a play call that is
\* not waiting on the say/espeak child returns or reaches that wait
C30_BoundedUpToSynth ==
  (vo.pc \notin {"idle", "done"}) ~> (vo.pc \in {"done", "say", "espeak"})

\* the conditions C31 lists for a value to be accepted
EvWellFormed(ev) ==
  /\ ev.kind = "object"
  /\ ev.event_type.t = "string" /\ ev.event_type.s = "shoplifting_detected"
  /\ ev.camera_id.t = "string" /\ ev.location.t = "string" /\ ev.timestamp.t = "string"
  /\ ev.confidence.t = "number" /\ ev.confidence.n \in 0..100

\* C31 (as stated): validation accepts a value exactly when its event_type is
\* "shoplifting_detected", its camera_id, location and timestamp are strings
\* and its confidence is a number in [0,1]; a value that fails validation is
\* never evaluated by the gate nor processed by the pipeline.
C31_MalformedNeverEnters ==
  bd.called =>
    /\ bd.valid <=> EvWellFormed(bd.event)
    /\ ~bd.valid => run[bd.run] = NoRun

\* the part of C31 about the validation function alone
C31_ValidationExact == bd.called => (bd.valid <=> EvWellFormed(bd.event))

C31_ValidationWitness == bd.called /\ bd.valid

\* the documented default of each knob (confidences in hundredths)
KnobDefault(knob) ==
  CASE knob = "SHOPLIFT_MIN_CONFIDENCE" -> 75
    [] knob = "SHOPLIFT_COOLDOWN_SECONDS" -> 20
    [] knob = "SHOPLIFT_PERSISTENCE_COUNT" -> 2
    [] knob = "SHOPLIFT_PERSISTENCE_WINDOW_MS" -> 1000
    [] knob = "SHOPLIFT_CAMERA_COOLDOWN_SECONDS" -> 20
    [] knob = "SHOPLIFT_TRACK_COOLDOWN_SECONDS" -> 30
    [] knob = "SHOPLIFT_JUDGE_MIN_CONFIDENCE" -> 70
    [] knob = "SHOPLIFT_ESCALATE_SCORE" -> 70
    [] knob = "SHOPLIFT_DWELL_SECONDS" -> 12
    [] OTHER -> 60

\* the range of each knob
KnobInRange(knob, n) ==
  CASE knob \in {"SHOPLIFT_MIN_CONFIDENCE", "SHOPLIFT_JUDGE_MIN_CONFIDENCE",
                 "SHOPLIFT_ESCALATE_SCORE"} -> n >= 0 /\ n <= 100
    [] knob = "SHOPLIFT_PERSISTENCE_COUNT" -> n >= 1
    [] OTHER -> n >= 0

\* C32 (as stated): every knob resolves to its documented default when its
\* configured value is unset, empty, non-numeric or out of range, and to the
\* configured value otherwise; the minimum confidence is within [0,1].
C32_KnobsResolve ==
  cfg.called =>
    LET v == env[cfg.knob]
    IN  /\ cfg.resolved = IF v.kind = "num" /\ KnobInRange(cfg.knob, v.num)
                            THEN v.num ELSE KnobDefault(cfg.knob)
        /\ cfg.knob \in {"SHOPLIFT_MIN_CONFIDENCE", "SHOPLIFT_JUDGE_MIN_CONFIDENCE"}
             => cfg.resolved \in 0..100

\* C32 for every configured value but a string of white space
C32_KnobsResolveButBlank ==
  cfg.called /\ env[cfg.knob] # Blank =>
    LET v == env[cfg.knob]
    IN  cfg.resolved = IF v.kind = "num" /\ KnobInRange(cfg.knob, v.num)
                         THEN v.num ELSE KnobDefault(cfg.knob)

\* C33 (as stated): the wait before a retry of the TTS call is 1 s before the
\* first retry, 2 s before the second, and never more than 5 s.
C33_BackoffFromOneSecond ==
  /\ Len(vo.waits) >= 1 => vo.waits[1] = 1000
  /\ Len(vo.waits) >= 2 => vo.waits[2] = 2000
  /\ \A i \in 1..Len(vo.waits) : vo.waits[i] <= 5000

\* C33 (amended): the wait before a retry of the TTS call doubles with each
\* retry and is never more than 5 s; it is 2 s before the first retry and
\* 4 s before the second, and there is one wait per retry.
C33_BackoffDoubles ==
  /\ Len(vo.waits) = vo.attempt
  /\ Len(vo.waits) >= 1 => vo.waits[1] = 2000
  /\ Len(vo.waits) >= 2 => vo.waits[2] = 4000
  /\ \A i \in 1..Len(vo.waits) : vo.waits[i] <= 5000

C33_Witness == Len(vo.waits) = 2 /\ vo.pc = "done"

\* the map a freshly started gate holds after the admits of log: for each key,
\* the time of the latest admit
RECURSIVE ReplayLastTrigger(_, _)
ReplayLastTrigger(log, field) ==
  IF log = <<>> THEN <<>>
  ELSE LET m == ReplayLastTrigger(SubSeq(log, 1, Len(log) - 1), field)
           last == log[Len(log)]
       IN  [k \in DOMAIN m \cup {last[field]} |->
              IF k = last[field] THEN last.now ELSE m[k]]

\* the persistence buffers a freshly started gate holds after the occurrences
\* of log
RECURSIVE ReplayRecent(_)
ReplayRecent(log) ==
  IF log = <<>> \/ ~saPersistenceOn(env) THEN <<>>
  ELSE LET m == ReplayRecent(SubSeq(log, 1, Len(log) - 1))
           last == log[Len(log)]
       IN  [k \in DOMAIN m \cup {last.camera_id} |->
              IF k = last.camera_id
                THEN SliceLast(saInWindow(m, env, last.camera_id, last.now), RECENT_KEEP)
                ELSE m[k]]

\* C34: gate state is long-lived and a reset restores the initial state: the
\* maps and buffers of each gate are at every moment those a freshly started
\* gate holds after the events evaluated since the latest reset (all events,
\* when there was none), so the decisions after a reset are those of a fresh
\* gate.
C34_ResetRestoresFresh ==
  /\ gsLastTriggerByCamera = ReplayLastTrigger(gsAdmitLog, "camera_id")
  /\ gsLastTriggerByTrack = ReplayLastTrigger(gsAdmitLog, "track_id")
  /\ lastTriggerByCamera = ReplayLastTrigger(saAdmitLog, "camera_id")
  /\ recentEventsByCamera = ReplayRecent(saOccurrences)

\* a track admitted again after a reset of the grocery-shoplift gate, and a
\* camera admitted after a reset of the shoplift-alerts gate
C34_Witness ==
  \/ rs.gs /\ gsLast.called /\ gsLast.allow /\ Len(gsAdmitLog) = 2
  \/ rs.sa /\ saLast.called /\ saLast.allowed /\ recentEventsByCamera # <<>>

\* map with the entry of key set to now
WithEntry(map, key, now) ==
  [k \in DOMAIN map \cup {key} |-> IF k = key THEN now ELSE map[k]]

\* C35: a rejected evaluation never changes the last-trigger timestamps: in
\* every step that changes a last-trigger map, either the gate is reset or
\* the step is an admit, which sets the entry of the event's camera (and of
\* its track, in the gate that has tracks) to the time of that event and
\* leaves every other entry alone; and every admit does so.
C35_RejectKeepsCooldown ==
  [][ /\ (gsLastTriggerByCamera' # gsLastTriggerByCamera
          \/ gsLastTriggerByTrack' # gsLastTriggerByTrack) =>
            \/ gsLastTriggerByCamera' = <<>> /\ gsLastTriggerByTrack' = <<>>
            \/ gsLast'.called /\ gsLast'.allow
      /\ Len(gsAdmitLog') > Len(gsAdmitLog) =>
            /\ gsLastTriggerByCamera' =
                 WithEntry(gsLastTriggerByCamera, gsLast'.camera_id, gsLast'.now)
            /\ gsLastTriggerByTrack' =
                 WithEntry(gsLastTriggerByTrack, gsLast'.track_id, gsLast'.now)
      /\ lastTriggerByCamera' # lastTriggerByCamera =>
            \/ lastTriggerByCamera' = <<>>
            \/ saLast'.called /\ saLast'.allowed
      /\ Len(saAdmitLog') > Len(saAdmitLog) =>
            lastTriggerByCamera' =
              WithEntry(lastTriggerByCamera, saLast'.camera_id, saLast'.now)
    ]_vars

\* an event rejected by the camera cooldown 5 s after the admit at 0: the
\* camera's entry is still 0
C35_Witness ==
  /\ gsLast.called /\ ~gsLast.allow /\ gsLast.reason = "camera_cooldown"
  /\ gsLast.now = 5000
  /\ gsLastTriggerByCamera[gsLast.camera_id] = 0

\* C36 (as stated): the list updateTracks returns has one entry per input
\* detection, in input order, and its track_ids are pairwise distinct.
C36_OneTrackPerDetection ==
  trkLast.called =>
    /\ Len(trkLast.result) = Len(trkLast.dets)
    /\ \A k \in 1..Len(trkLast.dets) : trkLast.result[k].bbox = trkLast.dets[k]
    /\ \A i, j \in 1..Len(trkLast.result) :
         i < j => trkLast.result[i].track_id # trkLast.result[j].track_id

\* the part of C36 about the tracks stored before the call: none of them is
\* returned for two detections, and the list follows the input
C36_StoredMatchedOnce ==
  trkLast.called =>
    /\ Len(trkLast.result) = Len(trkLast.dets)
    /\ \A k \in 1..Len(trkLast.dets) : trkLast.result[k].bbox = trkLast.dets[k]
    /\ \A i, j \in 1..Len(trkLast.result) :
         (i < j /\ trkLast.result[i].track_id \in TrkPreIds) =>
            trkLast.result[i].track_id # trkLast.result[j].track_id

\* C37: with the default escalate score of 70, shouldEscalate is true exactly
\* when all three suspicion terms triggered; the score is one of 0, 20, 25,
\* 40, 45, 60, 65 and 85, and 85 is the only escalating one.
C37_EscalateNeedsAllThree ==
  susLast.called =>
    LET r == susLast.result
        all3 == /\ r.exit_without_checkout
                /\ HasTag(r.reasons, "dwell_high_theft")
                /\ r.torso_ratio_spike
    IN  /\ getEscalateScore(env) = 70
        /\ r.suspicion_score \in {0, 20, 25, 40, 45, 60, 65, 85}
        /\ shouldEscalate(r, env) <=> all3
        /\ shouldEscalate(r, env) <=> r.suspicion_score = 85

\* exit without checkout and dwell, no spike: 65, the largest score of two
\* terms, does not escalate
C37_Witness ==
  /\ susLast.called
  /\ susLast.result.exit_without_checkout /\ ~susLast.result.torso_ratio_spike
  /\ susLast.result.suspicion_score = 65
  /\ ~shouldEscalate(susLast.result, env)

\* C38 (as stated): for each admitted event the pipeline starts playback of
\* the event's audio exactly once, and only by enqueuing it on the playback
\* queue: no player is started outside the queue, and none for a run that
\* ends without a triggered record.
C38_PlaybackOnceViaQueue ==
  \A p \in Runs :
    /\ run[p].played = run[p].queued
    /\ (run[p].pc = "done" /\ run[p].result.triggered) => run[p].played = 1
    /\ (run[p].pc = "done"
          /\ ~\E i \in RecordsOf(p) : incidents[i].status = "triggered") =>
         run[p].played = 0

\* the part that holds: a run enqueues its audio at most once, as its last
\* step, and exactly once when it resolves as triggered
C38_EnqueuedOnce ==
  \A p \in Runs :
    /\ run[p].queued <= 1
    /\ run[p].queued = 1 <=> (run[p].pc = "done" /\ run[p].result.triggered)

\* the playback queue on its own: requests to enqueue and the events of the
\* players it started
NextQueue ==
  \/ \E audio \in Audios :
       /\ pb.asked < MaxPlays
       /\ playAudioNonBlocking(audio)
  \/ \E proc \in pb.procs : PbError(proc)
  \/ \E proc \in pb.procs : PbClose(proc)
  \/ \E installed \in BOOLEAN : PbInstall(installed)

\* every started player eventually closes or errors, and Node delivers the
\* event to its listener
QueueFairness ==
  /\ WF_vars(\E proc \in pb.procs : PbError(proc))
  /\ WF_vars(\E proc \in pb.procs : PbClose(proc))

SpecQueueLive == InitPlayback /\ [][NextQueue]_vars /\ QueueFairness

\* C39: every audio path enqueued with playAudioNonBlocking is eventually
\* handed to a player, provided every started player eventually closes or
\* errors; a player that fails to start or exits with an error does not leave
\* the queue stuck.
C39_EveryEnqueuedStarts ==
  \A i \in 1..MaxPlays :
    (Len(pb.enqueued) >= i) ~> (Len(pb.starts) >= i /\ pb.starts[i] = pb.enqueued[i])

\* the player was missing for the first entry; its error event started the
\* second one
C39_Witness ==
  /\ Len(pb.enqueued) = 2 /\ pb.starts = pb.enqueued
  /\ \E proc \in pb.procs : proc.id = 1 /\ proc.via = "queue" /\ proc.state = "errored"
  /\ \E proc \in pb.procs : proc.id = 2 /\ proc.via = "queue"

\* descriptions and camera ids of the POST bodies
Descriptions == {<<>>, <<"T">>, <<" ", "t">>}

CameraIds == {NoCamera, CamStr(<<"l", "i", "v", "e", " ">>), CamStr(<<"c">>)}

InitIncidents == InitWith(EnvWith(<<>>))

\* the requests are handled concurrently: the steps of different requests
\* interleave at every await
NextIncidents ==
  \/ \E r \in Posts, hasSnapshot \in BOOLEAN, description \in Descriptions,
        cameraId \in CameraIds : PostBegin(r, hasSnapshot, description, cameraId)
  \/ \E r \in Posts, ok \in BOOLEAN : PostRead(r, ok)
  \/ \E r \in Posts, ok \in BOOLEAN : PostSnapshot(r, ok)
  \/ \E r \in Posts, ok \in BOOLEAN : PostWrite(r, ok)
  \/ PostTick

SpecIncidents == InitIncidents /\ [][NextIncidents]_vars

\* two incidents of the file with one camera and one normalized description
\* were created more than 90 seconds apart
FileDeduped ==
  \A i, j \in 1..Len(di.file) :
    (/\ i < j
     /\ di.file[i].cameraId = di.file[j].cameraId
     /\ normalizeDescription(di.file[i].description)
          = normalizeDescription(di.file[j].description)) =>
      Abs(di.file[i].createdAt - di.file[j].createdAt) > DEDUPE_WINDOW_MS

\* C40 (as stated): POST /api/detected-incidents stores at most one incident
\* per camera and normalized description within any 90-second window and
\* never loses an already stored incident, also when several POST requests
\* are handled concurrently.
C40_DedupedAndNeverLost ==
  /\ FileDeduped
  /\ \A id \in di.stored : \E i \in 1..Len(di.file) : di.file[i].id = id

\* the part that holds under every interleaving: the file never holds two
\* incidents of one camera and normalized description within 90 seconds
C40_FileDeduped == FileDeduped /\ Len(di.file) <= MaxPosts

====
